---- MODULE Spec2Model ----
(***************************************************************************)
(* A model of eos_code_generator.py: the global consolidation done by      *)
(* parse_all_file (methods, callbacks, handles, structs and enums of the   *)
(* per-file tables moved into the global tables) and the struct analysis   *)
(* of _make_additional_method_requirements (roles, capability flags and    *)
(* the expansion decision).                                                 *)
(*                                                                         *)
(* A Python str is a sequence of one-character strings, so that strip,     *)
(* split, prefix and suffix tests are computed character by character.     *)
(* A Python dict is a sequence of [k, v] entries with distinct keys, in    *)
(* insertion order.                                                        *)
(***************************************************************************)
EXTENDS Integers, Sequences, FiniteSets, TLC

\* ------------------------------------------------------------------ str

\* str.startswith
StartsWith(s, p) == Len(p) <= Len(s) /\ SubSeq(s, 1, Len(p)) = p

\* str.endswith
EndsWith(s, p) == Len(p) <= Len(s) /\ SubSeq(s, Len(s) - Len(p) + 1, Len(s)) = p

\* str.removeprefix
RemovePrefix(s, p) == IF StartsWith(s, p) THEN SubSeq(s, Len(p) + 1, Len(s)) ELSE s

\* str.removesuffix
RemoveSuffix(s, p) == IF EndsWith(s, p) THEN SubSeq(s, 1, Len(s) - Len(p)) ELSE s

\* the `in` operator on two strs
Contains(s, sub) == \E i \in 1..(Len(s) - Len(sub) + 1) : SubSeq(s, i, i + Len(sub) - 1) = sub

\* str.lstrip(chars): drops leading characters that are in the set chars
RECURSIVE LStrip(_, _)
LStrip(s, chars) ==
  IF s # <<>> /\ Head(s) \in chars THEN LStrip(Tail(s), chars) ELSE s

\* str.rstrip(chars): drops trailing characters that are in the set chars
RECURSIVE RStrip(_, _)
RStrip(s, chars) ==
  IF s # <<>> /\ s[Len(s)] \in chars THEN RStrip(SubSeq(s, 1, Len(s) - 1), chars) ELSE s

\* str.split(c) for a one-character separator: "" splits into [""]
RECURSIVE SplitFrom(_, _, _)
SplitFrom(s, c, cur) ==
  IF s = <<>> THEN <<cur>>
  ELSE IF Head(s) = c THEN <<cur>> \o SplitFrom(Tail(s), c, <<>>)
  ELSE SplitFrom(Tail(s), c, Append(cur, Head(s)))

Split(s, c) == SplitFrom(s, c, <<>>)

\* "".join(parts)
RECURSIVE Join(_)
Join(parts) == IF parts = <<>> THEN <<>> ELSE Head(parts) \o Join(Tail(parts))

LowerChars == <<"a", "b", "c", "d", "e", "f", "g", "h", "i", "j", "k", "l", "m", "n", "o", "p", "q", "r", "s", "t", "u", "v", "w", "x", "y", "z">>
UpperChars == <<"A", "B", "C", "D", "E", "F", "G", "H", "I", "J", "K", "L", "M", "N", "O", "P", "Q", "R", "S", "T", "U", "V", "W", "X", "Y", "Z">>

\* str.upper and str.lower of one character
UpperChar(c) ==
  IF \E i \in 1..Len(LowerChars) : LowerChars[i] = c
  THEN UpperChars[CHOOSE i \in 1..Len(LowerChars) : LowerChars[i] = c] ELSE c

LowerChar(c) ==
  IF \E i \in 1..Len(UpperChars) : UpperChars[i] = c
  THEN LowerChars[CHOOSE i \in 1..Len(UpperChars) : UpperChars[i] = c] ELSE c

\* str.upper
Upper(s) == [i \in 1..Len(s) |-> UpperChar(s[i])]

\* str.capitalize: first character upper case, the rest lower case
Capitalize(s) == [i \in 1..Len(s) |-> IF i = 1 THEN UpperChar(s[i]) ELSE LowerChar(s[i])]

\* ----------------------------------------------------------------- dict

Keys(d) == {d[i].k : i \in 1..Len(d)}

Has(d, key) == \E i \in 1..Len(d) : d[i].k = key

\* d[key]; the caller tests Has first where Python would raise KeyError
Get(d, key) == d[CHOOSE i \in 1..Len(d) : d[i].k = key].v

\* d[key] = val: an existing key keeps its position, a new key goes last
Put(d, key, val) ==
  IF Has(d, key)
  THEN [i \in 1..Len(d) |-> IF d[i].k = key THEN [k |-> key, v |-> val] ELSE d[i]]
  ELSE Append(d, [k |-> key, v |-> val])

RECURSIVE Pop(_, _)
\* d.pop(key) of a present key
Pop(d, key) ==
  IF d = <<>> THEN <<>>
  ELSE IF Head(d).k = key THEN Tail(d) ELSE <<Head(d)>> \o Pop(Tail(d), key)

Values(d) == [i \in 1..Len(d) |-> d[i].v]

KeySeq(d) == [i \in 1..Len(d) |-> d[i].k]

\* ---------------------------------------------------------- _decay_eos_type

\* _decay_eos_type: every strip takes a set of characters, so lstrip("const")
\* drops any leading run of the letters c, o, n, s, t
_decay_eos_type(t) ==
  RStrip(LStrip(RStrip(RStrip(RStrip(RStrip(LStrip(LStrip(t,
    {"c", "o", "n", "s", "t"}), {" "}), {"*"}), {"&"}), {"*"}), {"&"}), {" "}), {" "})

\* ------------------------------------------------------- interface names

\* A variant of InterfaceToken that empties the token EOS only, so that
\* Platform stays in the derived name.
InterfaceToken_KeepsPlatform(tok) ==
  LET t1 == IF tok = <<"E", "O", "S">> THEN <<>> ELSE tok
      t2 == IF StartsWith(t1, <<"G", "e", "t">>) THEN RemovePrefix(t1, <<"G", "e", "t">>) ELSE t1
  IN  IF RemoveSuffix(t2, <<"I", "n", "t", "e", "r", "f", "a", "c", "e">>) # <<>> THEN RemoveSuffix(t2, <<"I", "n", "t", "e", "r", "f", "a", "c", "e">>) ELSE t2

\* One token of an accessor method's name, as lines 171-176 rewrite it: the
\* tokens EOS and Platform are emptied, a leading Get is dropped, and a
\* trailing Interface is dropped unless that would leave nothing.
InterfaceToken(tok) ==
  LET t1 == IF tok \in {<<"E", "O", "S">>, <<"P", "l", "a", "t", "f", "o", "r", "m">>} THEN <<>> ELSE tok
      t2 == IF StartsWith(t1, <<"G", "e", "t">>) THEN RemovePrefix(t1, <<"G", "e", "t">>) ELSE t1
  IN  IF RemoveSuffix(t2, <<"I", "n", "t", "e", "r", "f", "a", "c", "e">>) # <<>> THEN RemoveSuffix(t2, <<"I", "n", "t", "e", "r", "f", "a", "c", "e">>) ELSE t2

\* The key under which an accessor method is stored in `interfaces`.
InterfaceKey(method_name) ==
  LET splited == Split(method_name, "_")
  IN  Join([i \in 1..Len(splited) |-> InterfaceToken(splited[i])])

\* The test that makes a method an interface accessor.
IsAccessorName(method_name) ==
  Contains(method_name, <<"_", "G", "e", "t">>) /\ EndsWith(method_name, <<"I", "n", "t", "e", "r", "f", "a", "c", "e">>)

\* One token of a lower-case interface name in _convert_interface_class_name.
ClassNameToken(tok) ==
  IF tok \in {<<"r", "t", "c">>, <<"p", "2", "p">>, <<"u", "i">>} THEN Upper(tok)
  ELSE IF tok = <<"p", "l", "a", "y", "e", "r", "d", "a", "t", "a", "s", "t", "o", "r", "a", "g", "e">> THEN <<"P", "l", "a", "y", "e", "r", "D", "a", "t", "a", "S", "t", "o", "r", "a", "g", "e">>
  ELSE IF tok = <<"p", "2", "p">> THEN <<"P", "2", "P">>
  ELSE IF tok = <<"s", "d", "k">> THEN <<"P", "l", "a", "t", "f", "o", "r", "m">>
  ELSE IF tok = <<"u", "s", "e", "r", "i", "n", "f", "o">> THEN <<"U", "s", "e", "r", "I", "n", "f", "o">>
  ELSE IF tok = <<"t", "i", "t", "l", "e", "s", "t", "o", "r", "a", "g", "e">> THEN <<"T", "i", "t", "l", "e", "S", "t", "o", "r", "a", "g", "e">>
  ELSE IF tok = <<"a", "n", "t", "i", "c", "h", "e", "a", "t", "s", "e", "r", "v", "e", "r">> THEN <<"A", "n", "t", "i", "C", "h", "e", "a", "t", "S", "e", "r", "v", "e", "r">>
  ELSE IF tok = <<"a", "n", "t", "i", "c", "h", "e", "a", "t", "c", "l", "i", "e", "n", "t">> THEN <<"A", "n", "t", "i", "C", "h", "e", "a", "t", "C", "l", "i", "e", "n", "t">>
  ELSE IF tok = <<"p", "r", "o", "g", "r", "e", "s", "s", "i", "o", "n", "s", "n", "a", "p", "s", "h", "o", "t">> THEN <<"P", "r", "o", "g", "r", "e", "s", "s", "i", "o", "n", "S", "n", "a", "p", "s", "h", "o", "t">>
  ELSE IF tok = <<"k", "w", "s">> THEN <<"K", "W", "S">>
  ELSE IF tok = <<"c", "u", "s", "t", "o", "m", "i", "n", "v", "i", "t", "e", "s">> THEN <<"C", "u", "s", "t", "o", "m", "I", "n", "v", "i", "t", "e", "s">>
  ELSE IF tok = <<"i", "n", "t", "e", "g", "r", "a", "t", "e", "d", "p", "l", "a", "t", "f", "o", "r", "m">> THEN <<"I", "n", "t", "e", "g", "r", "a", "t", "e", "d", "P", "l", "a", "t", "f", "o", "r", "m">>
  ELSE Capitalize(tok)

_convert_interface_class_name(interface_name_lower) ==
  LET splited_name == Split(RemovePrefix(interface_name_lower, <<"e", "o", "s", "_">>), "_")
  IN  <<"E", "O", "S">> \o Join([i \in 1..Len(splited_name) |-> ClassNameToken(splited_name[i])])

\* ---------------------------------------------------------------- state

VARIABLES
  scanned,                \* file_lower2infos as the scan loop leaves it (line 155)
  file_lower2infos,       \* the per-file tables, consumed by the consolidation
  interfaces,
  structs,
  handles,
  release_methods,
  unhandled_methods,
  unhandled_callbacks,
  unhandled_enums,
  struct2additional_method_requirements,
  expended_as_args_structs,
  pc,                     \* the position in parse_all_file; *_KeyError: the
                          \* step raised KeyError and the run is over
  il_index,               \* the position of `for il in file_lower2infos` (line 158)
  runs,                   \* calls of parse_all_file so far
  first_run,              \* the ownership tables as the first call left them
  lines,                  \* _parse_file: the lines of the header being scanned
  line_index,             \* _parse_file: i, the index of the next line (from 0)
  api_latest_macros,      \* the *_API_LATEST macros the scan has seen
  scan_errors,            \* the lines _parse_file printed as ERROR
  gs_index,               \* gen_structs: the position of `for struct_type in structs`
  gen_struct_type,        \* _gen_struct: struct_type, the struct being generated
  gen_index,              \* _gen_struct: the position of `for field in fields.keys()`
  count_fields,           \* _gen_struct: what _find_count_field returned, in order
  variant_union_type_fileds,
  count_reports,          \* the `== error:` reports _find_count_field printed
  struct_lines,           \* the member, setter/getter and method lines of gen_structs' lines
  r_structs_cpp,          \* the binding and conversion statements of r_cpp_lines
  gh_index,               \* gen_handles: the position of `for h in handles` (line 274)
  gcb_index,              \* _gen_handle: the position of `for callback in callback_infos` (line 353)
  r_bind_signal_lines     \* what the calls of _gen_callback rendered

vars ==
  <<scanned, file_lower2infos, interfaces, structs, handles, release_methods,
    unhandled_methods, unhandled_callbacks, unhandled_enums,
    struct2additional_method_requirements, expended_as_args_structs, pc,
    il_index, runs, first_run, lines, line_index, api_latest_macros, scan_errors,
    gs_index, gen_struct_type, gen_index, count_fields, variant_union_type_fileds,
    count_reports, struct_lines, r_structs_cpp, gh_index, gcb_index, r_bind_signal_lines>>

\* the state of the scan, which the steps after it leave alone
scan_vars == <<lines, line_index, api_latest_macros, scan_errors>>

gen_vars ==
  <<gs_index, gen_struct_type, gen_index, count_fields, variant_union_type_fileds, count_reports,
    struct_lines, r_structs_cpp, gh_index, gcb_index, r_bind_signal_lines>>

handle_vars == <<gh_index, gcb_index, r_bind_signal_lines>>

\* no struct is being generated
GenIdle ==
  /\ gs_index = 0
  /\ gen_struct_type = <<>>
  /\ gen_index = 0
  /\ count_fields = <<>>
  /\ variant_union_type_fileds = <<>>
  /\ count_reports = <<>>
  /\ struct_lines = <<>>
  /\ r_structs_cpp = <<>>
  /\ gh_index = 0
  /\ gcb_index = 0
  /\ r_bind_signal_lines = <<>>

\* generate options (lines 43-44)
max_options_fields_count_to_expend == 3

max_callback_fields_count_to_expend == 3

\* `x in list`
InList(list, x) == \E i \in 1..Len(list) : list[i] = x

\* The module-level value of `interfaces` (lines 21-28): the entry Platform.
InitialInterfaces ==
  <<[k |-> <<"P", "l", "a", "t", "f", "o", "r", "m">>,
     v |-> [id |-> <<"E", "O", "S", "_", "P", "l", "a", "t", "f", "o", "r", "m", "_", "C", "r", "e", "a", "t", "e">>, return |-> <<"E", "O", "S", "_", "H", "P", "l", "a", "t", "f", "o", "r", "m">>,
            args |-> <<[type |-> <<"c", "o", "n", "s", "t", " ", "E", "O", "S", "_", "P", "l", "a", "t", "f", "o", "r", "m", "_", "O", "p", "t", "i", "o", "n", "s", "*">>, name |-> <<"O", "p", "t", "i", "o", "n", "s">>]>>]]>>

\* The value the scanner registers for a handle typedef (lines 1467-1471).
EmptyHandle == [methods |-> <<>>, callbacks |-> <<>>, enums |-> <<>>]

\* The tables of one file when it is first seen (lines 114-120, 143-149).
EmptyInfos ==
  [enums |-> <<>>, methods |-> <<>>, callbacks |-> <<>>, structs |-> <<>>, handles |-> <<>>]

\* -------------------------------------------------- consolidation (158-211)

\* One argument of `for arg in methods[method_name]["args"]` (lines 183-195):
\* A variant of ArgBody without the test on to_remove_methods: every
\* handle-typed argument takes the method into its handle.
ArgBody_EveryHandle(acc, arg_type, method_name, method_info) ==
  [hs |->
     IF Has(acc.hs, arg_type)
     THEN Put(acc.hs, arg_type,
              [Get(acc.hs, arg_type) EXCEPT !.methods = Put(@, method_name, method_info)])
     ELSE acc.hs,
   to_remove_methods |->
     IF Has(acc.hs, arg_type) /\ ~InList(acc.to_remove_methods, method_name)
     THEN Append(acc.to_remove_methods, method_name)
     ELSE acc.to_remove_methods,
   handle_type |->
     IF Has(acc.hs, arg_type) THEN arg_type ELSE acc.handle_type,
   callback_type |->
     IF EndsWith(arg_type, <<"C", "a", "l", "l", "b", "a", "c", "k">>) \/ EndsWith(arg_type, <<"C", "a", "l", "l", "b", "a", "c", "k", "V", "2">>)
     THEN arg_type
     ELSE acc.callback_type]

\* the method goes to the handle the argument names unless it was moved
\* already, and a callback type is noted, the last one staying.
ArgBody(acc, arg_type, method_name, method_info) ==
  [hs |->
     IF Has(acc.hs, arg_type) /\ ~InList(acc.to_remove_methods, method_name)
     THEN Put(acc.hs, arg_type,
              [Get(acc.hs, arg_type) EXCEPT !.methods = Put(@, method_name, method_info)])
     ELSE acc.hs,
   to_remove_methods |->
     IF Has(acc.hs, arg_type) /\ ~InList(acc.to_remove_methods, method_name)
     THEN Append(acc.to_remove_methods, method_name)
     ELSE acc.to_remove_methods,
   handle_type |->
     IF Has(acc.hs, arg_type) /\ ~InList(acc.to_remove_methods, method_name)
     THEN arg_type
     ELSE acc.handle_type,
   callback_type |->
     IF EndsWith(arg_type, <<"C", "a", "l", "l", "b", "a", "c", "k">>) \/ EndsWith(arg_type, <<"C", "a", "l", "l", "b", "a", "c", "k", "V", "2">>)
     THEN arg_type
     ELSE acc.callback_type]

\* `for arg in methods[method_name]["args"]` (lines 182-195). acc carries
\* hs (_handles, the handle table of file il), to_remove_methods, handle_type
\* and callback_type.
RECURSIVE ArgLoop(_, _, _, _)
ArgLoop(acc, args, method_name, method_info) ==
  IF args = <<>> THEN acc
  ELSE ArgLoop(ArgBody(acc, _decay_eos_type(Head(args).type), method_name, method_info),
               Tail(args), method_name, method_info)

\* A variant of AfterArgs that files a _Release method without listing it for
\* removal from the file's method table.
AfterArgs_ReleaseStays(acc, a, method_name, method_info) ==
  IF EndsWith(method_name, <<"_", "R", "e", "l", "e", "a", "s", "e">>)
  THEN [acc EXCEPT
          !.hs = a.hs,
          !.release_methods = Put(@, method_name, method_info),
          !.to_remove_methods = a.to_remove_methods]
  ELSE IF Len(a.handle_type) > 0 /\ Len(a.callback_type) > 0
  THEN IF Has(acc.callbacks, a.callback_type)
       THEN [acc EXCEPT
               !.hs = Put(a.hs, a.handle_type,
                          [Get(a.hs, a.handle_type) EXCEPT
                             !.callbacks = Put(@, a.callback_type,
                                               Get(acc.callbacks, a.callback_type))]),
               !.to_remove_methods = a.to_remove_methods,
               !.callbacks = Pop(@, a.callback_type)]
       ELSE [acc EXCEPT !.err = TRUE]
  ELSE [acc EXCEPT !.hs = a.hs, !.to_remove_methods = a.to_remove_methods]

\* Lines 197-208, after the arguments were looked at (a is ArgLoop's result):
\* a _Release method is filed and listed for removal once more; otherwise
\* the noted callback follows the method into its handle.
AfterArgs(acc, a, method_name, method_info) ==
  IF EndsWith(method_name, <<"_", "R", "e", "l", "e", "a", "s", "e">>)
  THEN [acc EXCEPT
          !.hs = a.hs,
          !.release_methods = Put(@, method_name, method_info),
          !.to_remove_methods = Append(a.to_remove_methods, method_name)]
  ELSE IF Len(a.handle_type) > 0 /\ Len(a.callback_type) > 0
  THEN IF Has(acc.callbacks, a.callback_type)
       THEN [acc EXCEPT
               !.hs = Put(a.hs, a.handle_type,
                          [Get(a.hs, a.handle_type) EXCEPT
                             !.callbacks = Put(@, a.callback_type,
                                               Get(acc.callbacks, a.callback_type))]),
               !.to_remove_methods = a.to_remove_methods,
               !.callbacks = Pop(@, a.callback_type)]
       ELSE [acc EXCEPT !.err = TRUE]
  ELSE [acc EXCEPT !.hs = a.hs, !.to_remove_methods = a.to_remove_methods]

\* The body of `for method_name in methods.keys()` (lines 164-208). acc
\* carries hs (_handles), callbacks (infos["callbacks"]), interfaces,
\* release_methods, to_remove_methods and err (a KeyError was raised).
MethodBody(acc, method_name, method_info) ==
  IF IsAccessorName(method_name)
  THEN [acc EXCEPT
          !.interfaces = Put(@, InterfaceKey(method_name), method_info),
          !.to_remove_methods = Append(@, method_name)]
  ELSE AfterArgs(acc,
                 ArgLoop([hs |-> acc.hs, to_remove_methods |-> acc.to_remove_methods,
                          handle_type |-> <<>>, callback_type |-> <<>>],
                         method_info.args, method_name, method_info),
                 method_name, method_info)

RECURSIVE MethodLoop(_, _)
MethodLoop(acc, methods) ==
  IF methods = <<>> \/ acc.err THEN acc
  ELSE MethodLoop(MethodBody(acc, Head(methods).k, Head(methods).v), Tail(methods))

\* `for m in to_remove_methods: infos["methods"].pop(m)` (lines 210-211):
\* popping a name that is no longer a key raises KeyError.
RECURSIVE PopLoop(_, _)
PopLoop(acc, to_remove) ==
  IF to_remove = <<>> \/ acc.err THEN acc
  ELSE IF Has(acc.methods, Head(to_remove))
       THEN PopLoop([acc EXCEPT !.methods = Pop(@, Head(to_remove))], Tail(to_remove))
       ELSE [acc EXCEPT !.err = TRUE]

\* The tables after one pass over the methods of the file at j: m is
\* MethodLoop's result and p is PopLoop's.
AfterMethods(g, i, j, m, p) ==
  [files |-> [[g.files EXCEPT ![i].v.handles = m.hs]
                EXCEPT ![j].v.callbacks = m.callbacks, ![j].v.methods = p.methods],
   interfaces |-> m.interfaces,
   release_methods |-> m.release_methods,
   err |-> p.err]

AfterMethodLoop(g, i, j, m) ==
  AfterMethods(g, i, j, m,
               PopLoop([methods |-> g.files[j].v.methods, err |-> m.err],
                       m.to_remove_methods))

\* One pass of `for infos in file_lower2infos.values()` (lines 160-211) for
\* the file at position j, with _handles the handle table of the file at i.
\* g carries files (file_lower2infos), interfaces, release_methods and err.
InfosBody(g, i, j) ==
  AfterMethodLoop(g, i, j,
                  MethodLoop([hs |-> g.files[i].v.handles,
                              callbacks |-> g.files[j].v.callbacks,
                              interfaces |-> g.interfaces,
                              release_methods |-> g.release_methods,
                              to_remove_methods |-> <<>>, err |-> FALSE],
                             g.files[j].v.methods))

RECURSIVE InfosLoop(_, _, _)
InfosLoop(g, i, j) ==
  IF j > Len(g.files) \/ g.err THEN g
  ELSE InfosLoop(InfosBody(g, i, j), i, j + 1)

\* One iteration of `for il in file_lower2infos` (lines 158-211).
ConsolidateFile ==
  /\ UNCHANGED scan_vars
  /\ UNCHANGED gen_vars
  /\ pc = "consolidate"
  /\ il_index <= Len(file_lower2infos)
  /\ \E g \in {InfosLoop([files |-> file_lower2infos, interfaces |-> interfaces,
                          release_methods |-> release_methods, err |-> FALSE],
                         il_index, 1)} :
       IF g.err
       THEN /\ pc' = "consolidate_KeyError"
            /\ UNCHANGED <<file_lower2infos, interfaces, release_methods, il_index>>
       ELSE /\ file_lower2infos' = g.files
            /\ interfaces' = g.interfaces
            /\ release_methods' = g.release_methods
            /\ il_index' = il_index + 1
            /\ pc' = IF il_index = Len(file_lower2infos) THEN "move_handles"
                     ELSE "consolidate"
  /\ UNCHANGED <<scanned, structs, handles, unhandled_methods, unhandled_callbacks,
                 unhandled_enums, struct2additional_method_requirements,
                 expended_as_args_structs, runs, first_run>>

\* ------------------------------------------- the moves (lines 213-243)

\* dict.pop(section) on the tables of one file
DropSection(infos, section) == [x \in DOMAIN infos \ {section} |-> infos[x]]

DropSectionAll(files, section) ==
  [i \in 1..Len(files) |-> [k |-> files[i].k, v |-> DropSection(files[i].v, section)]]

\* target[key] = value for every entry of source, in source's order
RECURSIVE PutAll(_, _)
PutAll(target, source) ==
  IF source = <<>> THEN target
  ELSE PutAll(Put(target, Head(source).k, Head(source).v), Tail(source))

\* every file's dict `section` put into target, file by file
RECURSIVE PutSections(_, _, _)
PutSections(target, files, section) ==
  IF files = <<>> THEN target
  ELSE PutSections(PutAll(target, Head(files).v[section]), Tail(files), section)

\* lines 213-217
MoveHandles ==
  /\ UNCHANGED scan_vars
  /\ UNCHANGED gen_vars
  /\ pc = "move_handles"
  /\ handles' = PutSections(handles, file_lower2infos, "handles")
  /\ file_lower2infos' = DropSectionAll(file_lower2infos, "handles")
  /\ pc' = "move_structs"
  /\ UNCHANGED <<scanned, interfaces, structs, release_methods, unhandled_methods,
                 unhandled_callbacks, unhandled_enums,
                 struct2additional_method_requirements, expended_as_args_structs,
                 il_index, runs, first_run>>

\* lines 219-223
MoveStructs ==
  /\ UNCHANGED scan_vars
  /\ UNCHANGED gen_vars
  /\ pc = "move_structs"
  /\ structs' = PutSections(structs, file_lower2infos, "structs")
  /\ file_lower2infos' = DropSectionAll(file_lower2infos, "structs")
  /\ pc' = "move_enums"
  /\ UNCHANGED <<scanned, interfaces, handles, release_methods, unhandled_methods,
                 unhandled_callbacks, unhandled_enums,
                 struct2additional_method_requirements, expended_as_args_structs,
                 il_index, runs, first_run>>

\* The interface a file's enums belong to (line 227).
EnumInterface(il) == RemovePrefix(_convert_interface_class_name(il), <<"E", "O", "S">>)

\* `for il in file_lower2infos` of lines 226-233. acc carries handles,
\* unhandled_enums and err: handles["EOS_H" + interface] of a handle that was
\* never declared raises KeyError.
RECURSIVE EnumLoop(_, _)
EnumLoop(acc, files) ==
  IF files = <<>> \/ acc.err THEN acc
  ELSE
    LET interface == EnumInterface(Head(files).k)
        handle == <<"E", "O", "S", "_", "H">> \o interface
        next ==
          IF Has(interfaces, interface)
          THEN IF Has(acc.handles, handle)
               THEN [acc EXCEPT
                       !.handles = Put(@, handle,
                                       [Get(acc.handles, handle) EXCEPT
                                          !.enums = Head(files).v.enums])]
               ELSE [acc EXCEPT !.err = TRUE]
          ELSE [acc EXCEPT !.unhandled_enums = PutAll(@, Head(files).v.enums)]
    IN  EnumLoop(next, Tail(files))

\* lines 225-233
MoveEnums ==
  /\ UNCHANGED scan_vars
  /\ UNCHANGED gen_vars
  /\ pc = "move_enums"
  /\ LET r == EnumLoop([handles |-> handles, unhandled_enums |-> unhandled_enums,
                        err |-> FALSE], file_lower2infos)
     IN  IF r.err
         THEN /\ pc' = "move_enums_KeyError"
              /\ UNCHANGED <<handles, unhandled_enums, file_lower2infos>>
         ELSE /\ handles' = r.handles
              /\ unhandled_enums' = r.unhandled_enums
              /\ file_lower2infos' = DropSectionAll(file_lower2infos, "enums")
              /\ pc' = "leftovers"
  /\ UNCHANGED <<scanned, interfaces, structs, release_methods, unhandled_methods,
                 unhandled_callbacks, struct2additional_method_requirements,
                 expended_as_args_structs, il_index, runs, first_run>>

\* lines 235-243; lines 247-255 only print
FileLeftovers ==
  /\ UNCHANGED scan_vars
  /\ UNCHANGED gen_vars
  /\ pc = "leftovers"
  /\ unhandled_callbacks' = PutSections(unhandled_callbacks, file_lower2infos, "callbacks")
  /\ unhandled_methods' = PutSections(unhandled_methods, file_lower2infos, "methods")
  /\ file_lower2infos' =
       DropSectionAll(DropSectionAll(file_lower2infos, "callbacks"), "methods")
  /\ pc' = "requirements"
  /\ UNCHANGED <<scanned, interfaces, structs, handles, release_methods, unhandled_enums,
                 struct2additional_method_requirements, expended_as_args_structs,
                 il_index, runs, first_run>>

\* ------------------------------------------------ roles (lines 1273-1388)

\* The allow-list of struct array fields: type -> field names.
struct_arr_map ==
  <<[k |-> <<"c", "o", "n", "s", "t", " ", "E", "O", "S", "_", "S", "t", "a", "t", "s", "_", "I", "n", "g", "e", "s", "t", "D", "a", "t", "a", "*">>, v |-> {<<"S", "t", "a", "t", "s">>}],
    [k |-> <<"c", "o", "n", "s", "t", " ", "E", "O", "S", "_", "P", "r", "e", "s", "e", "n", "c", "e", "M", "o", "d", "i", "f", "i", "c", "a", "t", "i", "o", "n", "_", "D", "a", "t", "a", "R", "e", "c", "o", "r", "d", "I", "d", "*">>, v |-> {<<"R", "e", "c", "o", "r", "d", "s">>}],
    [k |-> <<"c", "o", "n", "s", "t", " ", "E", "O", "S", "_", "P", "r", "e", "s", "e", "n", "c", "e", "_", "D", "a", "t", "a", "R", "e", "c", "o", "r", "d", "*">>, v |-> {<<"R", "e", "c", "o", "r", "d", "s">>}],
    [k |-> <<"c", "o", "n", "s", "t", " ", "E", "O", "S", "_", "L", "e", "a", "d", "e", "r", "b", "o", "a", "r", "d", "s", "_", "U", "s", "e", "r", "S", "c", "o", "r", "e", "s", "Q", "u", "e", "r", "y", "S", "t", "a", "t", "I", "n", "f", "o", "*">>, v |-> {<<"S", "t", "a", "t", "I", "n", "f", "o">>}],
    [k |-> <<"c", "o", "n", "s", "t", " ", "E", "O", "S", "_", "E", "c", "o", "m", "_", "C", "h", "e", "c", "k", "o", "u", "t", "E", "n", "t", "r", "y", "*">>, v |-> {<<"E", "n", "t", "r", "i", "e", "s">>}],
    [k |-> <<"c", "o", "n", "s", "t", " ", "E", "O", "S", "_", "A", "n", "t", "i", "C", "h", "e", "a", "t", "C", "o", "m", "m", "o", "n", "_", "R", "e", "g", "i", "s", "t", "e", "r", "E", "v", "e", "n", "t", "P", "a", "r", "a", "m", "D", "e", "f", "*">>, v |-> {<<"P", "a", "r", "a", "m", "D", "e", "f", "s">>}],
    [k |-> <<"c", "o", "n", "s", "t", " ", "E", "O", "S", "_", "A", "n", "t", "i", "C", "h", "e", "a", "t", "C", "o", "m", "m", "o", "n", "_", "L", "o", "g", "E", "v", "e", "n", "t", "P", "a", "r", "a", "m", "P", "a", "i", "r", "*">>, v |-> {<<"P", "a", "r", "a", "m", "s">>}]>>

_is_internal_struct_arr_field(type, field) ==
  Has(struct_arr_map, type) /\ field \in Get(struct_arr_map, type)

\* some argument of the method satisfies Test(arg)
SomeArg(method_info, Test(_)) ==
  \E a \in 1..Len(method_info.args) : Test(method_info.args[a])

\* some value of the dict satisfies Test(key, value)
SomeEntry(d, Test(_, _)) == \E i \in 1..Len(d) : Test(d[i].k, d[i].v)

__is_arg_out_struct(struct_type) ==
  LET OutArg(arg) ==
        _decay_eos_type(arg.type) = struct_type /\ StartsWith(arg.name, <<"O", "u", "t">>)
      InMethod(name, info) == SomeArg(info, OutArg)
      InHandle(h, infos) == SomeEntry(infos.methods, InMethod)
  IN  SomeEntry(handles, InHandle) \/ SomeEntry(unhandled_methods, InMethod)

__is_input_struct(struct_type) ==
  LET InArg(arg) ==
        _decay_eos_type(arg.type) = struct_type /\ ~StartsWith(arg.name, <<"O", "u", "t">>)
      InMethod(name, info) == ~EndsWith(name, <<"R", "e", "l", "e", "a", "s", "e">>) /\ SomeArg(info, InArg)
      InHandle(h, infos) == SomeEntry(infos.methods, InMethod)
  IN  SomeEntry(handles, InHandle) \/ SomeEntry(unhandled_methods, InMethod)

\* A variant of __is_output_struct that looks at callback arguments only and
\* not at return types.
__is_output_struct_CallbacksOnly(struct_type) ==
  LET IsArg(arg) == _decay_eos_type(arg.type) = struct_type
      Passed(name, info) == SomeArg(info, IsArg)
      InHandle(h, infos) == SomeEntry(infos.callbacks, Passed)
  IN  SomeEntry(handles, InHandle) \/ SomeEntry(unhandled_callbacks, Passed)

__is_output_struct(struct_type) ==
  LET IsArg(arg) == _decay_eos_type(arg.type) = struct_type
      Returned(name, info) == _decay_eos_type(info.return) = struct_type
      Passed(name, info) == SomeArg(info, IsArg)
      InHandle(h, infos) ==
        SomeEntry(infos.methods, Returned) \/ SomeEntry(infos.callbacks, Passed)
  IN  \/ SomeEntry(handles, InHandle)
      \/ SomeEntry(unhandled_methods, Returned)
      \/ SomeEntry(unhandled_callbacks, Passed)

\* r_owned_structs of __is_internal_struct: the structs with a field, outside
\* the array allow-list, whose decayed type is struct_type, in table order.
InternalOwners(struct_type) ==
  LET Holds(name, fields) ==
        \E f \in 1..Len(fields) :
          /\ ~_is_internal_struct_arr_field(fields[f].v, fields[f].k)
          /\ _decay_eos_type(fields[f].v) = struct_type
  IN  SelectSeq(KeySeq(structs), LAMBDA n : Holds(n, Get(structs, n)))

__is_internal_struct(struct_type) == Len(InternalOwners(struct_type)) > 0

\* r_owned_structs of __is_internal_struct_of_arr: the structs with an
\* allow-listed array field whose decayed type is struct_type.
InternalOfArrOwners(struct_type) ==
  LET Holds(name, fields) ==
        \E f \in 1..Len(fields) :
          /\ _is_internal_struct_arr_field(fields[f].v, fields[f].k)
          /\ _decay_eos_type(fields[f].v) = struct_type
  IN  SelectSeq(KeySeq(structs), LAMBDA n : Holds(n, Get(structs, n)))

__is_internal_struct_of_arr(struct_type) == Len(InternalOfArrOwners(struct_type)) > 0

\* lines 1371-1378: the first test calls __is_internal_struct_of_arr twice
__is_method_input_only_struct(struct_type) ==
  IF __is_internal_struct_of_arr(struct_type) \/ __is_internal_struct_of_arr(struct_type)
  THEN FALSE
  ELSE IF __is_arg_out_struct(struct_type) \/ __is_output_struct(struct_type)
  THEN FALSE
  ELSE TRUE

\* lines 1381-1388
__is_callback_output_only_struct(struct_type) ==
  IF __is_internal_struct_of_arr(struct_type) \/ __is_internal_struct_of_arr(struct_type)
  THEN FALSE
  ELSE IF __is_arg_out_struct(struct_type) \/ __is_input_struct(struct_type)
  THEN FALSE
  ELSE TRUE

\* ------------------- _make_additional_method_requirements (lines 1391-1445)

\* A variant of SelfRequirements in which an input struct gets set_to but
\* not to.
SelfRequirements_NoTo(struct_name) ==
  [set_from |-> __is_output_struct(struct_name) \/ __is_arg_out_struct(struct_name),
   from     |-> __is_output_struct(struct_name),
   set_to   |-> __is_input_struct(struct_name),
   to       |-> FALSE]

\* The flags a struct gets from its own roles (lines 1394-1408).
SelfRequirements(struct_name) ==
  [set_from |-> __is_output_struct(struct_name) \/ __is_arg_out_struct(struct_name),
   from     |-> __is_output_struct(struct_name),
   set_to   |-> __is_input_struct(struct_name),
   to       |-> __is_input_struct(struct_name)]

\* first pass (lines 1393-1408)
RECURSIVE SelfLoop(_, _)
SelfLoop(reqs, names) ==
  IF names = <<>> THEN reqs
  ELSE SelfLoop(Put(reqs, Head(names), SelfRequirements(Head(names))), Tail(names))

\* A variant of InheritLoop that takes no flag from the owning structs.
InheritLoop_Nothing(reqs, struct_name, owned_structs) == reqs

\* `for s in owned_structs` of lines 1413-1416: every flag that is true on s,
\* as the table stands now, is set on struct_name.
RECURSIVE InheritLoop(_, _, _)
InheritLoop(reqs, struct_name, owned_structs) ==
  IF owned_structs = <<>> THEN reqs
  ELSE
    LET s == Get(reqs, Head(owned_structs))
        mine == Get(reqs, struct_name)
        merged == [set_from |-> mine.set_from \/ s.set_from,
                   from     |-> mine.from \/ s.from,
                   set_to   |-> mine.set_to \/ s.set_to,
                   to       |-> mine.to \/ s.to]
    IN  InheritLoop(Put(reqs, struct_name, merged), struct_name, Tail(owned_structs))

\* A variant of InheritArrLoop in which an input owner also sets `to`.
RECURSIVE InheritArrLoop_WithTo(_, _, _)
InheritArrLoop_WithTo(reqs, struct_name, owned_structs) ==
  IF owned_structs = <<>> THEN reqs
  ELSE
    LET s == Head(owned_structs)
        mine == Get(reqs, struct_name)
        out == __is_output_struct(s) \/ __is_arg_out_struct(s)
        merged == [set_from |-> mine.set_from \/ out,
                   from     |-> mine.from \/ out,
                   set_to   |-> mine.set_to \/ __is_input_struct(s),
                   to       |-> mine.to \/ __is_input_struct(s)]
    IN  InheritArrLoop_WithTo(Put(reqs, struct_name, merged), struct_name, Tail(owned_structs))

\* `for s in owned_structs` of lines 1420-1429
RECURSIVE InheritArrLoop(_, _, _)
InheritArrLoop(reqs, struct_name, owned_structs) ==
  IF owned_structs = <<>> THEN reqs
  ELSE
    LET s == Head(owned_structs)
        mine == Get(reqs, struct_name)
        out == __is_output_struct(s) \/ __is_arg_out_struct(s)
        merged == [set_from |-> mine.set_from \/ out,
                   from     |-> mine.from \/ out,
                   set_to   |-> mine.set_to \/ __is_input_struct(s),
                   to       |-> mine.to]
    IN  InheritArrLoop(Put(reqs, struct_name, merged), struct_name, Tail(owned_structs))

\* second pass (lines 1410-1429), struct by struct on the table in place
RECURSIVE InternalLoop(_, _)
InternalLoop(reqs, names) ==
  IF names = <<>> THEN reqs
  ELSE
    LET struct_name == Head(names)
        r1 == InheritLoop(reqs, struct_name, InternalOwners(struct_name))
        r2 == InheritArrLoop(r1, struct_name, InternalOfArrOwners(struct_name))
    IN  InternalLoop(r2, Tail(names))

\* ExpandLoop with the version stamp left out of the field count.
RECURSIVE ExpandLoop_StampNotCounted(_, _)
ExpandLoop_StampNotCounted(expended, names) ==
  IF names = <<>> THEN expended
  ELSE
    LET struct_type == Head(names)
        field_count == Len(Get(structs, struct_type)) - 1
        e1 == IF /\ max_options_fields_count_to_expend > 0
                 /\ field_count <= max_options_fields_count_to_expend
                 /\ __is_method_input_only_struct(struct_type)
              THEN Append(expended, struct_type) ELSE expended
        e2 == IF /\ max_callback_fields_count_to_expend > 0
                 /\ field_count <= max_callback_fields_count_to_expend
                 /\ __is_callback_output_only_struct(struct_type)
              THEN Append(e1, struct_type) ELSE e1
    IN  ExpandLoop_StampNotCounted(e2, Tail(names))

\* third pass (lines 1432-1445): a struct passing both tests is appended twice
RECURSIVE ExpandLoop(_, _)
ExpandLoop(expended, names) ==
  IF names = <<>> THEN expended
  ELSE
    LET struct_type == Head(names)
        field_count == Len(Get(structs, struct_type))
        e1 == IF /\ max_options_fields_count_to_expend > 0
                 /\ field_count <= max_options_fields_count_to_expend
                 /\ __is_method_input_only_struct(struct_type)
              THEN Append(expended, struct_type) ELSE expended
        e2 == IF /\ max_callback_fields_count_to_expend > 0
                 /\ field_count <= max_callback_fields_count_to_expend
                 /\ __is_callback_output_only_struct(struct_type)
              THEN Append(e1, struct_type) ELSE e1
    IN  ExpandLoop(e2, Tail(names))

\* lines 1393-1408
RequirementsSelf ==
  /\ UNCHANGED scan_vars
  /\ UNCHANGED gen_vars
  /\ pc = "requirements"
  /\ struct2additional_method_requirements' =
       SelfLoop(struct2additional_method_requirements, KeySeq(structs))
  /\ pc' = "requirements_internal"
  /\ UNCHANGED <<scanned, file_lower2infos, interfaces, structs, handles, release_methods,
                 unhandled_methods, unhandled_callbacks, unhandled_enums,
                 expended_as_args_structs, il_index, runs, first_run>>

\* lines 1410-1429
RequirementsInternal ==
  /\ UNCHANGED scan_vars
  /\ UNCHANGED gen_vars
  /\ pc = "requirements_internal"
  /\ struct2additional_method_requirements' =
       InternalLoop(struct2additional_method_requirements, KeySeq(structs))
  /\ pc' = "expand"
  /\ UNCHANGED <<scanned, file_lower2infos, interfaces, structs, handles, release_methods,
                 unhandled_methods, unhandled_callbacks, unhandled_enums,
                 expended_as_args_structs, il_index, runs, first_run>>

\* The ownership tables a call of parse_all_file leaves behind.
OwnershipTables ==
  [handles |-> handles, interfaces |-> interfaces, release_methods |-> release_methods,
   unhandled_methods |-> unhandled_methods, unhandled_callbacks |-> unhandled_callbacks,
   unhandled_enums |-> unhandled_enums]

\* lines 1432-1445, and the return of parse_all_file
ExpandStructs ==
  /\ UNCHANGED scan_vars
  /\ UNCHANGED gen_vars
  /\ pc = "expand"
  /\ expended_as_args_structs' = ExpandLoop(expended_as_args_structs, KeySeq(structs))
  /\ pc' = "done"
  /\ first_run' = IF runs = 1 THEN <<OwnershipTables>> ELSE first_run
  /\ UNCHANGED <<scanned, file_lower2infos, interfaces, structs, handles, release_methods,
                 unhandled_methods, unhandled_callbacks, unhandled_enums,
                 struct2additional_method_requirements, il_index, runs>>

\* ------------------------------------------------ the scanned input (112-155)

Sections == {"enums", "methods", "callbacks", "structs", "handles"}

\* The dict `section` of file il: the declarations scanned from that file,
\* in declaration order.
SectionOf(decls, il, section) ==
  LET sel == SelectSeq(decls, LAMBDA d : d.at = il /\ d.section = section)
  IN  [i \in 1..Len(sel) |-> [k |-> sel[i].k, v |-> sel[i].v]]

\* _get_EOS_EResult, _get_EOS_UI_EKeyCombination and
\* _get_EOS_UI_EInputStateButtonFlags (lines 841-891) add three enums, read
\* from their own files, to the tables of `common` and `ui`.
SpecialEnums(il, enums) ==
  IF il = <<"c", "o", "m", "m", "o", "n">> THEN Put(enums, <<"E", "O", "S", "_", "E", "R", "e", "s", "u", "l", "t">>, <<<<"E", "O", "S", "_", "S", "u", "c", "c", "e", "s", "s">>>>)
  ELSE IF il = <<"u", "i">>
  THEN Put(Put(enums, <<"E", "O", "S", "_", "U", "I", "_", "E", "K", "e", "y", "C", "o", "m", "b", "i", "n", "a", "t", "i", "o", "n">>, <<<<"E", "O", "S", "_", "U", "I", "K", "_", "N", "o", "n", "e">>>>),
           <<"E", "O", "S", "_", "U", "I", "_", "E", "I", "n", "p", "u", "t", "S", "t", "a", "t", "e", "B", "u", "t", "t", "o", "n", "F", "l", "a", "g", "s">>, <<<<"E", "O", "S", "_", "U", "I", "S", "B", "F", "_", "N", "o", "n", "e">>>>)
  ELSE enums

\* file_lower2infos after the scan loop and the three special tables: one
\* entry per file in the order the files were listed, `common` first
\* (line 114).
ScanResult(order, decls) ==
  [i \in 1..Len(order) |->
     [k |-> order[i],
      v |-> [section \in Sections |->
               IF section = "enums"
               THEN SpecialEnums(order[i], SectionOf(decls, order[i], section))
               ELSE SectionOf(decls, order[i], section)]]]

\* The orders in which os.listdir can put the files `auth` and `ui`.
FileOrders == {<<<<"c", "o", "m", "m", "o", "n">>, <<"a", "u", "t", "h">>, <<"u", "i">>>>, <<<<"c", "o", "m", "m", "o", "n">>, <<"u", "i">>, <<"a", "u", "t", "h">>>>}

Nowhere == <<>>

Method(at, name, return, args) ==
  [section |-> "methods", at |-> at, k |-> name,
   v |-> [id |-> name, return |-> return, args |-> args]]

Callback(at, name, return, arg) ==
  [section |-> "callbacks", at |-> at, k |-> name,
   v |-> [id |-> name, return |-> return, args |-> <<arg>>]]

Handle(at, name) == [section |-> "handles", at |-> at, k |-> name, v |-> EmptyHandle]

Struct(at, name, fields) == [section |-> "structs", at |-> at, k |-> name, v |-> fields]

Enum(at, name, members) == [section |-> "enums", at |-> at, k |-> name, v |-> members]

Arg(type, name) == [type |-> type, name |-> name]

Field(name, type) == [k |-> name, v |-> type]

\* The declarations of the consolidation inputs: two handles, three
\* accessors, a release method, two handle methods that share a callback,
\* each placed in a file or left out.
ConsolidationDecls(hAuth, hUI, a1, a2, a3, r1, m1, m2, cbB) ==
  <<Handle(hAuth, <<"E", "O", "S", "_", "H", "A", "u", "t", "h">>),
    Handle(hUI, <<"E", "O", "S", "_", "H", "U", "I">>),
    Method(a1, <<"E", "O", "S", "_", "P", "l", "a", "t", "f", "o", "r", "m", "_", "G", "e", "t", "A", "u", "t", "h", "I", "n", "t", "e", "r", "f", "a", "c", "e">>, <<"E", "O", "S", "_", "H", "A", "u", "t", "h">>,
           <<Arg(<<"E", "O", "S", "_", "H", "A", "u", "t", "h">>, <<"H", "a", "n", "d", "l", "e">>)>>),
    Method(a2, <<"F", "o", "o", "_", "G", "e", "t", "B", "a", "r", "I", "n", "t", "e", "r", "f", "a", "c", "e">>, <<"E", "O", "S", "_", "H", "B", "a", "r">>, <<>>),
    Method(a3, <<"E", "O", "S", "_", "G", "e", "t", "A", "u", "t", "h", "I", "n", "t", "e", "r", "f", "a", "c", "e">>, <<"E", "O", "S", "_", "H", "A", "u", "t", "h">>, <<>>),
    Method(r1, <<"E", "O", "S", "_", "A", "u", "t", "h", "_", "R", "e", "l", "e", "a", "s", "e">>, <<"v", "o", "i", "d">>, <<Arg(<<"E", "O", "S", "_", "H", "A", "u", "t", "h">>, <<"H", "a", "n", "d", "l", "e">>)>>),
    Method(m1, <<"E", "O", "S", "_", "A", "u", "t", "h", "_", "L", "o", "g", "i", "n">>, <<"v", "o", "i", "d">>,
           <<Arg(<<"E", "O", "S", "_", "H", "U", "I">>, <<"U", "I">>), Arg(<<"E", "O", "S", "_", "H", "A", "u", "t", "h">>, <<"H", "a", "n", "d", "l", "e">>),
             Arg(<<"c", "o", "n", "s", "t", " ", "O", "n", "A", "C", "a", "l", "l", "b", "a", "c", "k">>, <<"A">>), Arg(<<"c", "o", "n", "s", "t", " ", "O", "n", "B", "C", "a", "l", "l", "b", "a", "c", "k", "V", "2">>, <<"B">>)>>),
    Method(m2, <<"E", "O", "S", "_", "A", "u", "t", "h", "_", "Q", "u", "e", "r", "y">>, <<"v", "o", "i", "d">>,
           <<Arg(<<"E", "O", "S", "_", "H", "A", "u", "t", "h">>, <<"H", "a", "n", "d", "l", "e">>), Arg(<<"c", "o", "n", "s", "t", " ", "O", "n", "B", "C", "a", "l", "l", "b", "a", "c", "k", "V", "2">>, <<"B">>)>>),
    Callback(<<"a", "u", "t", "h">>, <<"O", "n", "A", "C", "a", "l", "l", "b", "a", "c", "k">>, <<>>, Arg(<<"c", "o", "n", "s", "t", " ", "S", "*">>, <<"D", "a", "t", "a">>)),
    Callback(cbB, <<"O", "n", "B", "C", "a", "l", "l", "b", "a", "c", "k", "V", "2">>, <<>>, Arg(<<"c", "o", "n", "s", "t", " ", "S", "*">>, <<"D", "a", "t", "a">>)),
    Struct(<<"a", "u", "t", "h">>, <<"S">>, <<Field(<<"A", "p", "i", "V", "e", "r", "s", "i", "o", "n">>, <<"i", "n", "t", "3", "2", "_", "t">>), Field(<<"N", "a", "m", "e">>, <<"c", "o", "n", "s", "t", " ", "c", "h", "a", "r", "*">>)>>),
    Enum(<<"a", "u", "t", "h">>, <<"E", "O", "S", "_", "E", "A", "u", "t", "h", "S", "c", "o", "p", "e">>, <<<<"E", "O", "S", "_", "A", "S", "_", "N", "o", "F", "l", "a", "g", "s">>>>)>>

\* The globals as the module sets them (lines 8-38) and the entry of
\* parse_all_file's consolidation with the given scan result and the version
\* macros the scan registered (lines 1457-1462).
StartWith(input, macros) ==
  /\ GenIdle
  /\ lines = <<>>
  /\ line_index = 0
  /\ api_latest_macros = macros
  /\ scan_errors = <<>>
  /\ scanned = input
  /\ file_lower2infos = input
  /\ interfaces = InitialInterfaces
  /\ structs = <<>>
  /\ handles = <<>>
  /\ release_methods = <<>>
  /\ unhandled_methods = <<>>
  /\ unhandled_callbacks = <<>>
  /\ unhandled_enums = <<>>
  /\ struct2additional_method_requirements = <<>>
  /\ expended_as_args_structs = <<>>
  /\ pc = "consolidate"
  /\ il_index = 1
  /\ runs = 1
  /\ first_run = <<>>

\* The same with no version macro scanned.
Start(input) == StartWith(input, <<>>)

Init ==
  \E order \in FileOrders,
     hAuth \in {Nowhere, <<"c", "o", "m", "m", "o", "n">>, <<"a", "u", "t", "h">>, <<"u", "i">>},
     hUI \in {Nowhere, <<"a", "u", "t", "h">>, <<"u", "i">>},
     a1 \in {Nowhere, <<"a", "u", "t", "h">>},
     a2 \in {Nowhere, <<"u", "i">>},
     a3 \in {Nowhere, <<"u", "i">>},
     r1 \in {Nowhere, <<"a", "u", "t", "h">>},
     m1 \in {Nowhere, <<"a", "u", "t", "h">>, <<"u", "i">>},
     m2 \in {Nowhere, <<"a", "u", "t", "h">>, <<"u", "i">>},
     cbB \in {<<"a", "u", "t", "h">>, <<"u", "i">>} :
    Start(ScanResult(order, ConsolidationDecls(hAuth, hUI, a1, a2, a3, r1, m1, m2, cbB)))

\* ------------------------------------------------ the struct inputs

\* The most fields a struct of the struct inputs has besides ApiVersion, Name
\* and its nesting field.
MaxExtraFields == 2

\* The most calls of parse_all_file in one process.
MaxRuns == 2

Roles == {"in", "out", "ret", "cb"}

ExtraFields(n) == [i \in 1..n |-> Field(<<"F", "0", "0", "0">> \o [j \in 1..i |-> "x"], <<"i", "n", "t", "3", "2", "_", "t">>)]

\* The methods and the callback through which struct `name` is used: as an
\* argument named Options, as an argument named Out<name>, as a return type,
\* and as the argument of a callback that a method takes.
Uses(name, roles, inName) ==
  (IF "in" \in roles
   THEN <<Method(<<"a", "u", "t", "h">>, inName, <<"v", "o", "i", "d">>,
                 <<Arg(<<"E", "O", "S", "_", "H", "A", "u", "t", "h">>, <<"H", "a", "n", "d", "l", "e">>), Arg(<<"c", "o", "n", "s", "t", " ">> \o name \o <<"*">>, <<"O", "p", "t", "i", "o", "n", "s">>)>>)>>
   ELSE <<>>)
  \o
  (IF "out" \in roles
   THEN <<Method(<<"a", "u", "t", "h">>, <<"C", "o", "p", "y">> \o name, <<"E", "O", "S", "_", "E", "R", "e", "s", "u", "l", "t">>,
                 <<Arg(<<"E", "O", "S", "_", "H", "A", "u", "t", "h">>, <<"H", "a", "n", "d", "l", "e">>), Arg(name \o <<"*">>, <<"O", "u", "t">> \o name)>>)>>
   ELSE <<>>)
  \o
  (IF "ret" \in roles
   THEN <<Method(<<"a", "u", "t", "h">>, <<"M", "a", "k", "e">> \o name, <<"c", "o", "n", "s", "t", " ">> \o name \o <<"*">>,
                 <<Arg(<<"E", "O", "S", "_", "H", "A", "u", "t", "h">>, <<"H", "a", "n", "d", "l", "e">>)>>)>>
   ELSE <<>>)
  \o
  (IF "cb" \in roles
   THEN <<Method(<<"a", "u", "t", "h">>, <<"N", "o", "t", "i", "f", "y">> \o name, <<"v", "o", "i", "d">>,
                 <<Arg(<<"E", "O", "S", "_", "H", "A", "u", "t", "h">>, <<"H", "a", "n", "d", "l", "e">>),
                   Arg(<<"c", "o", "n", "s", "t", " ", "O", "n">> \o name \o <<"C", "a", "l", "l", "b", "a", "c", "k">>, <<"N", "o", "t", "i", "f", "i", "c", "a", "t", "i", "o", "n">>)>>),
          Callback(<<"a", "u", "t", "h">>, <<"O", "n">> \o name \o <<"C", "a", "l", "l", "b", "a", "c", "k">>, <<>>,
                   Arg(<<"c", "o", "n", "s", "t", " ">> \o name \o <<"*">>, <<"D", "a", "t", "a">>))>>
   ELSE <<>>)

\* File `auth` declares handle EOS_HAuth (or not), struct S with ApiVersion,
\* Name and n further fields, and, when hasT, struct EOS_Stats_IngestData,
\* nested in S as a plain member or as an allow-listed array, or holding S;
\* file `ui` declares nothing.
StructDecls(hAuth, n, rolesS, hasT, rolesT, nest) ==
  <<Handle(hAuth, <<"E", "O", "S", "_", "H", "A", "u", "t", "h">>),
    Struct(<<"a", "u", "t", "h">>, <<"S">>,
           <<Field(<<"A", "p", "i", "V", "e", "r", "s", "i", "o", "n">>, <<"i", "n", "t", "3", "2", "_", "t">>), Field(<<"N", "a", "m", "e">>, <<"c", "o", "n", "s", "t", " ", "c", "h", "a", "r", "*">>)>>
           \o ExtraFields(n)
           \o (IF nest = "member"
               THEN <<Field(<<"I", "n", "n", "e", "r">>, <<"E", "O", "S", "_", "S", "t", "a", "t", "s", "_", "I", "n", "g", "e", "s", "t", "D", "a", "t", "a">>)>>
               ELSE IF nest = "array"
               THEN <<Field(<<"S", "t", "a", "t", "s">>, <<"c", "o", "n", "s", "t", " ", "E", "O", "S", "_", "S", "t", "a", "t", "s", "_", "I", "n", "g", "e", "s", "t", "D", "a", "t", "a", "*">>)>>
               ELSE <<>>)),
    Struct(IF hasT THEN <<"a", "u", "t", "h">> ELSE Nowhere, <<"E", "O", "S", "_", "S", "t", "a", "t", "s", "_", "I", "n", "g", "e", "s", "t", "D", "a", "t", "a">>,
           <<Field(<<"A", "p", "i", "V", "e", "r", "s", "i", "o", "n">>, <<"i", "n", "t", "3", "2", "_", "t">>), Field(<<"I", "n", "g", "e", "s", "t", "A", "m", "o", "u", "n", "t">>, <<"i", "n", "t", "3", "2", "_", "t">>)>>
           \o (IF nest = "holder" THEN <<Field(<<"O", "p", "t", "i", "o", "n", "s">>, <<"c", "o", "n", "s", "t", " ", "S", "*">>)>> ELSE <<>>))>>
  \o Uses(<<"S">>, rolesS, <<"M">>)
  \o Uses(<<"E", "O", "S", "_", "S", "t", "a", "t", "s", "_", "I", "n", "g", "e", "s", "t", "D", "a", "t", "a">>, rolesT, <<"I", "n", "g", "e", "s", "t">>)

InitStructs ==
  \E hAuth \in {Nowhere, <<"a", "u", "t", "h">>},
     n \in 0..MaxExtraFields,
     rolesS \in SUBSET Roles,
     hasT \in BOOLEAN :
    \E rolesT \in (IF hasT THEN SUBSET Roles ELSE {{}}),
       nest \in (IF hasT THEN {"none", "member", "array", "holder"} ELSE {"none"}) :
      Start(ScanResult(<<<<"c", "o", "m", "m", "o", "n">>, <<"a", "u", "t", "h">>, <<"u", "i">>>>,
                       StructDecls(hAuth, n, rolesS, hasT, rolesT, nest)))

\* parse_all_file called again in the same process: the scan rebuilds the
\* per-file tables from the same files, the module's globals stay as they are.
Rerun ==
  /\ UNCHANGED scan_vars
  /\ UNCHANGED gen_vars
  /\ pc = "done"
  /\ runs < MaxRuns
  /\ file_lower2infos' = scanned
  /\ il_index' = 1
  /\ runs' = runs + 1
  /\ pc' = "consolidate"
  /\ UNCHANGED <<scanned, interfaces, structs, handles, release_methods,
                 unhandled_methods, unhandled_callbacks, unhandled_enums,
                 struct2additional_method_requirements, expended_as_args_structs,
                 first_run>>

Next ==
  \/ ConsolidateFile
  \/ MoveHandles
  \/ MoveStructs
  \/ MoveEnums
  \/ FileLeftovers
  \/ RequirementsSelf
  \/ RequirementsInternal
  \/ ExpandStructs

Spec == Init /\ [][Next]_vars

\* The consolidation and the struct analysis on the struct inputs.
SpecStructs == InitStructs /\ [][Next]_vars

NextRerun == Next \/ Rerun

\* The consolidation inputs, with parse_all_file called up to MaxRuns times.
SpecRerun == Init /\ [][NextRerun]_vars

\* ------------------------------------------------------------ the claims

\* the entries of dict `section` over all scanned files
ScannedEntries(section) ==
  UNION {{scanned[i].v[section][j] : j \in 1..Len(scanned[i].v[section])} :
           i \in 1..Len(scanned)}

ScannedMethods == {e.v : e \in ScannedEntries("methods")}

ScannedMethodNames == {e.k : e \in ScannedEntries("methods")}

DeclaredHandles == {e.k : e \in ScannedEntries("handles")}

DeclaredCallbacks == {e.k : e \in ScannedEntries("callbacks")}

\* parse_all_file is past the leftover filing (line 243)
Consolidated == pc \in {"requirements", "requirements_internal", "expand", "done"}

\* the handles whose method table holds the method
HandleOwners(name) == {h \in Keys(handles) : Has(Get(handles, h).methods, name)}

\* the handles whose callback table holds the callback
CallbackOwners(name) == {h \in Keys(handles) : Has(Get(handles, h).callbacks, name)}

\* the method is a value of the interface table
InInterfaceTable(m) == \E i \in 1..Len(interfaces) : interfaces[i].v = m

\* some file still has a dict `section` with this key
PerFileHolds(section, key) ==
  \E i \in 1..Len(file_lower2infos) :
    /\ section \in DOMAIN file_lower2infos[i].v
    /\ Has(file_lower2infos[i].v[section], key)

\* no file has a dict `section` any more
PerFileGone(section) ==
  \A i \in 1..Len(file_lower2infos) : section \notin DOMAIN file_lower2infos[i].v

B2N(b) == IF b THEN 1 ELSE 0

\* the decayed types of the method's arguments that name a declared handle,
\* in argument order
HandleArgs(m) ==
  SelectSeq([a \in 1..Len(m.args) |-> _decay_eos_type(m.args[a].type)],
            LAMBDA ty : ty \in DeclaredHandles)

\* the decayed types of the method's arguments that end in Callback or CallbackV2
CallbackArgs(m) ==
  {_decay_eos_type(m.args[a].type) : a \in 1..Len(m.args)} \cap
    {ty \in {_decay_eos_type(m.args[a].type) : a \in 1..Len(m.args)} :
       EndsWith(ty, <<"C", "a", "l", "l", "b", "a", "c", "k">>) \/ EndsWith(ty, <<"C", "a", "l", "l", "b", "a", "c", "k", "V", "2">>)}

IsReleaseName(name) == EndsWith(name, <<"_", "R", "e", "l", "e", "a", "s", "e">>)

C2_FirstHandleArgumentOwns ==
  Consolidated =>
    \A m \in ScannedMethods :
      (~IsAccessorName(m.id) /\ Len(HandleArgs(m)) >= 2)
        => HandleOwners(m.id) = {HandleArgs(m)[1]}

C4_CallbacksFollowTheirMethod ==
  Consolidated =>
    \A m \in ScannedMethods : \A h \in HandleOwners(m.id) :
      \A c \in CallbackArgs(m) \cap DeclaredCallbacks :
        /\ Has(Get(handles, h).callbacks, c)
        /\ ~Has(unhandled_callbacks, c)
        /\ ~PerFileHolds("callbacks", c)

\* No method of the scanned input has a callback-typed argument.
NoCallbackArguments == \A m \in ScannedMethods : CallbackArgs(m) = {}

\* C5: on every input (here: every input without callback arguments, which
\* have their own failure) the consolidation loop completes, and after it
\* every method named ..._Release is in the release-method registry.
C5_ReleaseMethodsAreFiled ==
  /\ NoCallbackArguments => pc # "consolidate_KeyError"
  /\ pc \notin {"consolidate", "consolidate_KeyError"} =>
       \A m \in ScannedMethods : IsReleaseName(m.id) => Has(release_methods, m.id)

\* the scanned method of that name is in no method table: no file's, no
\* handle's, not the unhandled bucket
InNoMethodTable(name) ==
  /\ ~PerFileHolds("methods", name)
  /\ HandleOwners(name) = {}
  /\ ~Has(unhandled_methods, name)

\* an entry of the interface table under `key` is a scanned accessor whose
\* name is one of `names`
InterfaceEntryOf(key, names) ==
  /\ Has(interfaces, key)
  /\ Get(interfaces, key) \in ScannedMethods
  /\ Get(interfaces, key).id \in names

ScannedEnums ==
  UNION {{<<scanned[i].k, scanned[i].v.enums[j].k>> : j \in 1..Len(scanned[i].v.enums)} :
           i \in 1..Len(scanned)}

\* the handles whose enum table holds the enum
EnumOwners(name) == {h \in Keys(handles) : Has(Get(handles, h).enums, name)}

\* C7: the enum step never fails, and after it every scanned enum is in
\* exactly one container: the enum table of handle EOS_H<Interface> when its
\* file's interface is in the interface table, the unhandled bucket otherwise.
C7_EnumsOwnedOnce ==
  /\ pc # "move_enums_KeyError"
  /\ pc \in {"leftovers", "requirements", "requirements_internal", "expand", "done"} =>
       \A e \in ScannedEnums :
         IF Has(interfaces, EnumInterface(e[1]))
         THEN /\ EnumOwners(e[2]) = {<<"E", "O", "S", "_", "H">> \o EnumInterface(e[1])}
              /\ ~Has(unhandled_enums, e[2])
         ELSE /\ EnumOwners(e[2]) = {}
              /\ Has(unhandled_enums, e[2])

\* The scan result of the end-to-end example: file auth declares handle
\* EOS_HAuth, struct S{ApiVersion: int32_t, Name: const char*} and method
\* M(EOS_HAuth Handle, const S* Options) -> void; file ui declares nothing.
C8_Input ==
  ScanResult(<<<<"c", "o", "m", "m", "o", "n">>, <<"a", "u", "t", "h">>, <<"u", "i">>>>,
             StructDecls(<<"a", "u", "t", "h">>, 0, {"in"}, FALSE, {}, "none"))

\* what the example expects of S and M
C8_StructAndMethod ==
  /\ Has(struct2additional_method_requirements, <<"S">>)
  /\ Get(struct2additional_method_requirements, <<"S">>) =
       [set_from |-> FALSE, from |-> FALSE, set_to |-> TRUE, to |-> TRUE]
  /\ __is_input_struct(<<"S">>)
  /\ ~__is_output_struct(<<"S">>)
  /\ ~__is_arg_out_struct(<<"S">>)
  /\ InList(expended_as_args_structs, <<"S">>)
  /\ HandleOwners(<<"M">>) = {<<"E", "O", "S", "_", "H", "A", "u", "t", "h">>}

\* C8 as claimed: on the example a finished run has S input-only and
\* expanded, M in the handle's method table, and the unhandled methods,
\* callbacks and enums all empty.
C8_AsClaimed ==
  (pc = "done" /\ scanned = C8_Input) =>
    /\ C8_StructAndMethod
    /\ unhandled_methods = <<>>
    /\ unhandled_callbacks = <<>>
    /\ unhandled_enums = <<>>

\* C8 (amended): on the example a finished run has S input-only and
\* expanded, M in the handle's method table, no unhandled method and no
\* unhandled callback; the unhandled enums are exactly the enums of the three
\* special tables, EOS_EResult, EOS_UI_EKeyCombination and
\* EOS_UI_EInputStateButtonFlags.
C8_EndToEnd ==
  (pc = "done" /\ scanned = C8_Input) =>
    /\ C8_StructAndMethod
    /\ unhandled_methods = <<>>
    /\ unhandled_callbacks = <<>>
    /\ Keys(unhandled_enums) =
         {<<"E", "O", "S", "_", "E", "R", "e", "s", "u", "l", "t">>, <<"E", "O", "S", "_", "U", "I", "_", "E", "K", "e", "y", "C", "o", "m", "b", "i", "n", "a", "t", "i", "o", "n">>, <<"E", "O", "S", "_", "U", "I", "_", "E", "I", "n", "p", "u", "t", "S", "t", "a", "t", "e", "B", "u", "t", "t", "o", "n", "F", "l", "a", "g", "s">>}

\* The example's run has finished.
C8_Witness ==
  /\ pc = "done"
  /\ scanned = C8_Input
  /\ InList(expended_as_args_structs, <<"S">>)

\* struct s is the decayed type of a field of another struct that is not an
\* allow-listed array field
IsMemberOfAnother(s) ==
  \E i \in 1..Len(structs) : \E f \in 1..Len(structs[i].v) :
    /\ structs[i].k # s
    /\ _decay_eos_type(structs[i].v[f].v) = s
    /\ ~_is_internal_struct_arr_field(structs[i].v[f].v, structs[i].v[f].k)

\* struct s is the element type of an allow-listed array field of another
\* struct
IsArrayElementOfAnother(s) ==
  \E i \in 1..Len(structs) : \E f \in 1..Len(structs[i].v) :
    /\ structs[i].k # s
    /\ _decay_eos_type(structs[i].v[f].v) = s
    /\ _is_internal_struct_arr_field(structs[i].v[f].v, structs[i].v[f].k)

\* C9: after _make_additional_method_requirements no struct of the expanded
\* list is the type of a scalar field of another struct or the element type
\* of an allow-listed array field of another struct.
C9_ExpandedIsNeverInternal ==
  pc = "done" =>
    \A i \in 1..Len(expended_as_args_structs) :
      /\ ~IsMemberOfAnother(expended_as_args_structs[i])
      /\ ~IsArrayElementOfAnother(expended_as_args_structs[i])

FieldCount(s) == Len(Get(structs, s))

\* the flattening tests as the claim words them
C10_InputEligible(s) ==
  /\ FieldCount(s) <= max_options_fields_count_to_expend
  /\ ~__is_output_struct(s)
  /\ ~IsMemberOfAnother(s)
  /\ ~IsArrayElementOfAnother(s)

C10_CallbackEligible(s) ==
  /\ FieldCount(s) <= max_callback_fields_count_to_expend
  /\ ~__is_input_struct(s)
  /\ ~IsMemberOfAnother(s)
  /\ ~IsArrayElementOfAnother(s)

\* C10: a struct is in the expanded list if and only if its field count is
\* at most the input threshold and it is never an output, internal or
\* internal-of-array, or its field count is at most the callback threshold
\* and it is never an input, internal or internal-of-array.
C10_ExpandedIffEligible ==
  pc = "done" =>
    \A s \in Keys(structs) :
      InList(expended_as_args_structs, s) <=> (C10_InputEligible(s) \/ C10_CallbackEligible(s))

\* -------------------------------------------- the claims on capability flags

\* the flags _make_additional_method_requirements left for struct s
Flags(s) == Get(struct2additional_method_requirements, s)

FlagNames == {"set_from", "from", "set_to", "to"}

\* C11: after requirement derivation a struct that is an output or an
\* out-argument (argument name starting with Out) has set_from and from, and
\* a struct that is an input has set_to and to.
C11_FlagsFollowRoles ==
  pc = "done" =>
    \A s \in Keys(structs) :
      /\ (__is_output_struct(s) \/ __is_arg_out_struct(s))
           => (Flags(s).set_from /\ Flags(s).from)
      /\ __is_input_struct(s) => (Flags(s).set_to /\ Flags(s).to)

\* some scanned method returns s / takes s as an argument; some scanned
\* callback takes s
ReturnedByAMethod(s) == \E m \in ScannedMethods : _decay_eos_type(m.return) = s

ArgumentOfAMethod(s) ==
  \E m \in ScannedMethods : \E a \in 1..Len(m.args) : _decay_eos_type(m.args[a].type) = s

ArgumentOfACallback(s) ==
  \E e \in ScannedEntries("callbacks") :
    \E a \in 1..Len(e.v.args) : _decay_eos_type(e.v.args[a].type) = s

\* s is used as a method return type and as nothing else
ReturnOnly(s) ==
  /\ ReturnedByAMethod(s)
  /\ ~ArgumentOfAMethod(s)
  /\ ~ArgumentOfACallback(s)
  /\ ~IsMemberOfAnother(s)
  /\ ~IsArrayElementOfAnother(s)

ScalarMember(c, m) == c # m /\ InList(InternalOwners(m), c)

\* container c has an allow-listed array field whose element type is the
\* other struct e
ArrayElement(c, e) == c # e /\ InList(InternalOfArrOwners(e), c)

\* s is no field type of another struct
TopLevel(s) == ~IsMemberOfAnother(s) /\ ~IsArrayElementOfAnother(s)

\* C13 as claimed: after requirement derivation a container has every flag
\* that is true on a struct it has as a scalar member.
C13_AsClaimed ==
  pc = "done" =>
    \A c \in Keys(structs), m \in Keys(structs) :
      ScalarMember(c, m) => \A k \in FlagNames : Flags(m)[k] => Flags(c)[k]

\* C13 (amended): after requirement derivation a struct that is a scalar
\* member of a container has every flag that the container's own roles give
\* the container (the member inherits from the container), and a container
\* that is no field type of another struct has the flags of its own roles and
\* nothing from its members.
C13_MemberInheritsFromContainer ==
  pc = "done" =>
    \A c \in Keys(structs), m \in Keys(structs) :
      ScalarMember(c, m) =>
        /\ \A k \in FlagNames : SelfRequirements(c)[k] => Flags(m)[k]
        /\ TopLevel(c) => Flags(c) = SelfRequirements(c)

\* A finished run where the container is an input and an output, and its
\* scalar member, which has no role of its own, has all four flags.
C13_Witness ==
  /\ pc = "done"
  /\ \E c \in Keys(structs), m \in Keys(structs) :
       /\ ScalarMember(c, m)
       /\ __is_input_struct(c) /\ __is_output_struct(c)
       /\ SelfRequirements(m) = [set_from |-> FALSE, from |-> FALSE, set_to |-> FALSE, to |-> FALSE]
       /\ \A k \in FlagNames : Flags(m)[k]

\* C14 as claimed: after requirement derivation a struct with an allow-listed
\* array field of element type e has set_from and from when e is an output or
\* an out-argument, has set_to when e is an input, and has to only from a
\* role of its own.
C14_AsClaimed ==
  pc = "done" =>
    \A c \in Keys(structs), e \in Keys(structs) :
      ArrayElement(c, e) =>
        /\ (__is_output_struct(e) \/ __is_arg_out_struct(e))
             => (Flags(c).set_from /\ Flags(c).from)
        /\ __is_input_struct(e) => Flags(c).set_to
        /\ (TopLevel(c) /\ Flags(c).to) => __is_input_struct(c)

\* C14 (amended): after requirement derivation the element struct e of an
\* allow-listed array field of container c has set_from and from when c is an
\* output or an out-argument, has set_to when c is an input, and has to only
\* when e itself is an input or e is also a scalar member of a struct; a
\* container that is no field type of another struct has the flags of its own
\* roles and nothing from its elements.
C14_ElementInheritsFromContainer ==
  pc = "done" =>
    \A c \in Keys(structs), e \in Keys(structs) :
      ArrayElement(c, e) =>
        /\ (__is_output_struct(c) \/ __is_arg_out_struct(c))
             => (Flags(e).set_from /\ Flags(e).from)
        /\ __is_input_struct(c) => Flags(e).set_to
        /\ Flags(e).to => (__is_input_struct(e) \/ IsMemberOfAnother(e))
        /\ TopLevel(c) => Flags(c) = SelfRequirements(c)

\* A finished run where the container is an input and an out-argument and
\* its array element, which has no role of its own, has set_from, from and
\* set_to but not to.
C14_Witness ==
  /\ pc = "done"
  /\ \E c \in Keys(structs), e \in Keys(structs) :
       /\ ArrayElement(c, e)
       /\ __is_input_struct(c) /\ __is_arg_out_struct(c) /\ ~__is_output_struct(c)
       /\ Flags(e) = [set_from |-> TRUE, from |-> TRUE, set_to |-> TRUE, to |-> FALSE]

\* ------------------------------------------------ _parse_file (1448-1632)

\* str.find and str.rfind, counting from 1; 0 when sub does not occur
Find(s, sub) ==
  IF Contains(s, sub)
  THEN CHOOSE i \in 1..(Len(s) - Len(sub) + 1) :
         /\ SubSeq(s, i, i + Len(sub) - 1) = sub
         /\ \A j \in 1..(i - 1) : SubSeq(s, j, j + Len(sub) - 1) # sub
  ELSE 0

RFind(s, sub) ==
  IF Contains(s, sub)
  THEN CHOOSE i \in 1..(Len(s) - Len(sub) + 1) :
         /\ SubSeq(s, i, i + Len(sub) - 1) = sub
         /\ \A j \in (i + 1)..(Len(s) - Len(sub) + 1) : SubSeq(s, j, j + Len(sub) - 1) # sub
  ELSE 0

\* the two parts of s around the occurrence of sep at position at
CutAt(s, sep, at) == <<SubSeq(s, 1, at - 1), SubSeq(s, at + Len(sep), Len(s))>>

\* s.split(sep, 1) and s.rsplit(sep, 1)
Split1(s, sep) == IF Contains(s, sep) THEN CutAt(s, sep, Find(s, sep)) ELSE <<s>>

RSplit1(s, sep) == IF Contains(s, sep) THEN CutAt(s, sep, RFind(s, sep)) ELSE <<s>>

\* s.split(sep) for a separator of any length
RECURSIVE SplitSep(_, _)
SplitSep(s, sep) ==
  IF Contains(s, sep)
  THEN <<Split1(s, sep)[1]>> \o SplitSep(Split1(s, sep)[2], sep)
  ELSE <<s>>

\* the header whose scan is modelled is eos_auth.h, interface_lower `auth`
ScannedFile == <<"a", "u", "t", "h">>

\* lines[i] for i counted from 0
Line(n) == lines[n + 1]

\* r_file_lower2infos[interface_lower][section][key] = val
PutEntry(section, key, val) ==
  Put(file_lower2infos, ScannedFile,
      [Get(file_lower2infos, ScannedFile) EXCEPT ![section] = Put(@, key, val)])

\* the tests of the branches of the scan loop, in the order they are made
IsMacroLine(line) == StartsWith(line, <<"#", "d", "e", "f", "i", "n", "e", " ", "E", "O", "S", "_">>) /\ Contains(line, <<"_", "A", "P", "I", "_", "L", "A", "T", "E", "S", "T">>)

IsHandleLine(line) == Contains(line, <<"t", "y", "p", "e", "d", "e", "f", " ", "s", "t", "r", "u", "c", "t", " ">>) /\ Contains(line, <<"H", "a", "n", "d", "l", "e", "*">>)

IsEnumLine(line) ==
  /\ StartsWith(line, <<"E", "O", "S", "_", "E", "N", "U", "M", "(">>)
  /\ SplitSep(line, <<"(">>)[1] \notin {<<"E", "O", "S", "_", "E", "N", "U", "M", "_", "S", "T", "A", "R", "T">>, <<"E", "O", "S", "_", "E", "N", "U", "M", "_", "E", "N", "D">>, <<"E", "O", "S", "_", "E", "N", "U", "M", "_", "B", "O", "O", "L", "E", "A", "N", "_", "O", "P", "E", "R", "A", "T", "O", "R", "S">>}

IsMethodLine(line) == StartsWith(line, <<"E", "O", "S", "_", "D", "E", "C", "L", "A", "R", "E", "_", "F", "U", "N", "C">>)

IsCallbackLine(line) == StartsWith(line, <<"E", "O", "S", "_", "D", "E", "C", "L", "A", "R", "E", "_", "C", "A", "L", "L", "B", "A", "C", "K">>)

IsStructLine(line) == StartsWith(line, <<"E", "O", "S", "_", "S", "T", "R", "U", "C", "T">>)

\* the scan loop is at a line
AtLine == pc = "scan" /\ line_index < Len(lines)

\* the step raised IndexError: the run is over
ScanIndexError ==
  /\ pc' = "scan_IndexError"
  /\ UNCHANGED <<file_lower2infos, api_latest_macros, scan_errors, line_index>>

\* lines 1457-1462
ScanMacro ==
  /\ UNCHANGED gen_vars
  /\ AtLine
  /\ IsMacroLine(Line(line_index))
  /\ api_latest_macros' = Append(api_latest_macros, SplitSep(Line(line_index), <<" ">>)[2])
  /\ line_index' = line_index + 1
  /\ UNCHANGED <<scanned, file_lower2infos, interfaces, structs, handles, release_methods,
                 unhandled_methods, unhandled_callbacks, unhandled_enums,
                 struct2additional_method_requirements, expended_as_args_structs,
                 pc, il_index, runs, first_run, lines, scan_errors>>

\* lines 1465-1473
ScanHandle ==
  /\ UNCHANGED gen_vars
  /\ AtLine
  /\ ~IsMacroLine(Line(line_index))
  /\ IsHandleLine(Line(line_index))
  /\ IF Contains(Line(line_index), <<"*", " ">>)
     THEN /\ file_lower2infos' =
               PutEntry("handles", Split1(Split1(Line(line_index), <<"*", " ">>)[2], <<";">>)[1], EmptyHandle)
          /\ line_index' = line_index + 1
          /\ UNCHANGED <<pc, api_latest_macros, scan_errors>>
     ELSE ScanIndexError
  /\ UNCHANGED <<scanned, interfaces, structs, handles, release_methods,
                 unhandled_methods, unhandled_callbacks, unhandled_enums,
                 struct2additional_method_requirements, expended_as_args_structs,
                 il_index, runs, first_run, lines>>

\* a line of an enum block as line 1487 strips it
EnumLineText(line) == RStrip(RStrip(LStrip(line, {"\t"}), {"\n"}), {","})

\* the loop of lines 1486-1497 from line n on: the members collected, the
\* index after the terminator, or err when the lines run out before it
RECURSIVE EnumBlock(_, _)
EnumBlock(members, n) ==
  IF n >= Len(lines) THEN [err |-> TRUE, members |-> members, next |-> n]
  ELSE IF StartsWith(Line(n), <<")", ";">>) THEN [err |-> FALSE, members |-> members, next |-> n + 1]
  ELSE IF StartsWith(EnumLineText(Line(n)), <<" ">>) \/ StartsWith(EnumLineText(Line(n)), <<"/">>)
  THEN EnumBlock(members, n + 1)
  ELSE EnumBlock(Append(members, Split1(EnumLineText(Line(n)), <<" ", "=", " ">>)[1]), n + 1)

\* lines 1476-1499
ScanEnum ==
  /\ UNCHANGED gen_vars
  /\ AtLine
  /\ ~IsMacroLine(Line(line_index))
  /\ ~IsHandleLine(Line(line_index))
  /\ IsEnumLine(Line(line_index))
  /\ \E r \in {EnumBlock(<<>>, line_index + 1)} :
       /\ file_lower2infos' =
            PutEntry("enums", SplitSep(SplitSep(Line(line_index), <<"(">>)[2], <<",">>)[1], r.members)
       /\ line_index' = r.next
       /\ pc' = IF r.err THEN "scan_IndexError" ELSE pc
  /\ UNCHANGED <<scanned, interfaces, structs, handles, release_methods,
                 unhandled_methods, unhandled_callbacks, unhandled_enums,
                 struct2additional_method_requirements, expended_as_args_structs,
                 il_index, runs, first_run, lines, api_latest_macros, scan_errors>>

\* `for a in args` of lines 1516-1527
RECURSIVE MethodArgs(_, _)
MethodArgs(acc, args) ==
  IF args = <<>> THEN acc
  ELSE IF Len(Head(args)) <= 0 THEN MethodArgs(acc, Tail(args))
  ELSE IF RSplit1(Head(args), <<" ">>)[1] = <<"v", "o", "i", "d">> THEN MethodArgs(acc, Tail(args))
  ELSE IF Len(RSplit1(Head(args), <<" ">>)) < 2 THEN [acc EXCEPT !.err = TRUE]
  ELSE MethodArgs([acc EXCEPT !.args = Append(@, Arg(RSplit1(Head(args), <<" ">>)[1],
                                                      RSplit1(Head(args), <<" ">>)[2]))],
                  Tail(args))

\* the expressions of lines 1503, 1512 and 1515 can be evaluated
MethodLineSplits(line) ==
  /\ Contains(line, <<")", " ">>)
  /\ Contains(Split1(line, <<" ">>)[1], <<"(">>)
  /\ Contains(line, <<" ">>)
  /\ Contains(Split1(line, <<" ">>)[2], <<"(">>)

MethodName(line) == SplitSep(Split1(line, <<")", " ">>)[2], <<"(">>)[1]

MethodReturn(line) == RStrip(SplitSep(Split1(line, <<" ">>)[1], <<"(">>)[2], {")"})

MethodArgTexts(line) ==
  SplitSep(RSplit1(Split1(Split1(line, <<" ">>)[2], <<"(">>)[2], <<")">>)[1], <<",", " ">>)

\* lines 1502-1530
ScanMethod ==
  /\ UNCHANGED gen_vars
  /\ AtLine
  /\ ~IsMacroLine(Line(line_index))
  /\ ~IsHandleLine(Line(line_index))
  /\ ~IsEnumLine(Line(line_index))
  /\ IsMethodLine(Line(line_index))
  /\ IF ~Contains(Line(line_index), <<")", " ">>)
     THEN ScanIndexError
     ELSE IF MethodName(Line(line_index)) = <<"E", "O", "S", "_", "A", "c", "h", "i", "e", "v", "e", "m", "e", "n", "t", "s", "_", "A", "d", "d", "N", "o", "t", "i", "f", "y", "A", "c", "h", "i", "e", "v", "e", "m", "e", "n", "t", "s", "U", "n", "l", "o", "c", "k", "e", "d">>
     THEN /\ line_index' = line_index + 1
          /\ UNCHANGED <<pc, file_lower2infos, api_latest_macros, scan_errors>>
     ELSE IF ~MethodLineSplits(Line(line_index))
     THEN ScanIndexError
     ELSE \E a \in {MethodArgs([err |-> FALSE, args |-> <<>>], MethodArgTexts(Line(line_index)))} :
            IF a.err THEN ScanIndexError
            ELSE /\ file_lower2infos' =
                      PutEntry("methods", MethodName(Line(line_index)),
                               [id |-> MethodName(Line(line_index)),
                                return |-> MethodReturn(Line(line_index)),
                                args |-> a.args])
                 /\ line_index' = line_index + 1
                 /\ UNCHANGED <<pc, api_latest_macros, scan_errors>>
  /\ UNCHANGED <<scanned, interfaces, structs, handles, release_methods,
                 unhandled_methods, unhandled_callbacks, unhandled_enums,
                 struct2additional_method_requirements, expended_as_args_structs,
                 il_index, runs, first_run, lines>>

\* args of line 1538
CallbackArgTexts(line) == SplitSep(SplitSep(Split1(line, <<"(">>)[2], <<")">>)[1], <<",", " ">>)

CallbackHasReturn(line) == StartsWith(line, <<"E", "O", "S", "_", "D", "E", "C", "L", "A", "R", "E", "_", "C", "A", "L", "L", "B", "A", "C", "K", "_", "R", "E", "T", "V", "A", "L", "U", "E">>)

\* the expressions of lines 1538-1549 can be evaluated
CallbackLineSplits(line) ==
  /\ Contains(line, <<"(">>)
  /\ CallbackHasReturn(line) => Len(CallbackArgTexts(line)) >= 2
  /\ Contains(CallbackArgTexts(line)[Len(CallbackArgTexts(line))], <<" ">>)

\* the last of the texts, split at its last space
CallbackLastArg(texts) == RSplit1(texts[Len(texts)], <<" ">>)

\* lines 1534-1551
ScanCallback ==
  /\ UNCHANGED gen_vars
  /\ AtLine
  /\ ~IsMacroLine(Line(line_index))
  /\ ~IsHandleLine(Line(line_index))
  /\ ~IsEnumLine(Line(line_index))
  /\ ~IsMethodLine(Line(line_index))
  /\ IsCallbackLine(Line(line_index))
  /\ IF ~CallbackLineSplits(Line(line_index))
     THEN ScanIndexError
     ELSE \E texts \in {CallbackArgTexts(Line(line_index))} :
            /\ file_lower2infos' =
                 PutEntry("callbacks",
                          IF CallbackHasReturn(Line(line_index)) THEN texts[2] ELSE texts[1],
                          [id |-> IF CallbackHasReturn(Line(line_index)) THEN texts[2] ELSE texts[1],
                           return |-> IF CallbackHasReturn(Line(line_index)) THEN texts[1] ELSE <<>>,
                           args |-> <<Arg(CallbackLastArg(texts)[1], CallbackLastArg(texts)[2])>>])
            /\ line_index' = line_index + 1
            /\ UNCHANGED <<pc, api_latest_macros, scan_errors>>
  /\ UNCHANGED <<scanned, interfaces, structs, handles, release_methods,
                 unhandled_methods, unhandled_callbacks, unhandled_enums,
                 struct2additional_method_requirements, expended_as_args_structs,
                 il_index, runs, first_run, lines>>

\* a line of a struct block as lines 1563 and 1576 strip it
StructLineText(line) == RStrip(LStrip(line, {"\t"}), {"\n"})

\* the test of lines 1564-1569 and 1577-1582: a comment or an empty line
IsSkippedText(text) ==
  \/ StartsWith(text, <<"/">>)
  \/ StartsWith(text, <<"*">>)
  \/ StartsWith(text, <<" ">>)
  \/ Len(text) = 0

\* the text before the first semicolon (lines 1573, 1585)
BeforeSemicolon(text) == SplitSep(text, <<";">>)[1]

\* the loop of lines 1575-1592 from line n on. acc carries the arms
\* (union_fileds), errors (the lines printed), next (the index of the line
\* that starts with `}`) and err (the lines ran out).
RECURSIVE UnionArms(_, _)
UnionArms(acc, n) ==
  IF n >= Len(lines) THEN [acc EXCEPT !.err = TRUE]
  ELSE IF StartsWith(LStrip(Line(n), {"\t"}), <<"}">>) THEN [acc EXCEPT !.next = n]
  ELSE IF IsSkippedText(StructLineText(Line(n))) THEN UnionArms(acc, n + 1)
  ELSE IF Len(RSplit1(BeforeSemicolon(StructLineText(Line(n))), <<" ">>)) # 2
  THEN UnionArms([acc EXCEPT !.errors = Append(@, Line(n))], n + 1)
  ELSE UnionArms([acc EXCEPT
                    !.arms = Put(@, RSplit1(BeforeSemicolon(StructLineText(Line(n))), <<" ">>)[2],
                                 RSplit1(BeforeSemicolon(StructLineText(Line(n))), <<" ">>)[1])],
                 n + 1)

\* lines 1594-1597: the type text of the union field
RECURSIVE UnionArmTexts(_)
UnionArmTexts(arms) ==
  IF arms = <<>> THEN <<>>
  ELSE Head(arms).v \o <<" ", ":", " ">> \o Head(arms).k \o <<",", " ">> \o UnionArmTexts(Tail(arms))

UnionType(arms) == RStrip(RStrip(<<"U", "n", "i", "o", "n", "{">> \o UnionArmTexts(arms), {" "}), {","}) \o <<"}">>

\* lines 1599-1606: the field name after the closing brace
UnionFieldName(line) ==
  RStrip(RStrip(LStrip(LStrip(LStrip(line, {"\t"}), {"}"}), {" "}), {"\n"}), {";"})

\* one pass of the loop of lines 1562-1621 at a union: u is UnionArms' result
AfterUnion(acc, u) ==
  IF u.err THEN [acc EXCEPT !.err = TRUE, !.errors = u.errors]
  ELSE [acc EXCEPT !.errors = u.errors,
                   !.fields = Put(@, UnionFieldName(Line(u.next)), UnionType(u.arms)),
                   !.next = u.next + 1]

\* AfterRegular with the new field put in front of the ones already read.
AfterRegular_InFront(acc, n, splited) ==
  IF Len(splited) # 2
  THEN [acc EXCEPT !.errors = Append(@, Line(n)), !.next = n + 1]
  ELSE [acc EXCEPT !.fields = <<[k |-> splited[2], v |-> splited[1]]>> \o Pop(@, splited[2]),
                   !.next = n + 1]

\* one pass of the loop at a regular field line (lines 1611-1619)
AfterRegular(acc, n, splited) ==
  IF Len(splited) # 2
  THEN [acc EXCEPT !.errors = Append(@, Line(n)), !.next = n + 1]
  ELSE [acc EXCEPT !.fields = Put(@, splited[2], splited[1]), !.next = n + 1]

\* the loop of lines 1562-1621. acc carries fields (the struct's dict),
\* errors, next (the index of the line to look at) and err.
RECURSIVE StructBlock(_)
StructBlock(acc) ==
  IF acc.err THEN acc
  ELSE IF acc.next >= Len(lines) THEN [acc EXCEPT !.err = TRUE]
  ELSE IF StartsWith(Line(acc.next), <<")", ")", ";">>) THEN [acc EXCEPT !.next = @ + 1]
  ELSE IF IsSkippedText(StructLineText(Line(acc.next)))
  THEN StructBlock([acc EXCEPT !.next = @ + 1])
  ELSE IF StartsWith(BeforeSemicolon(StructLineText(Line(acc.next))), <<"u", "n", "i", "o", "n">>)
  THEN StructBlock(AfterUnion(acc, UnionArms([arms |-> <<>>, errors |-> acc.errors,
                                              next |-> 0, err |-> FALSE],
                                             acc.next + 2)))
  ELSE StructBlock(AfterRegular(acc, acc.next,
                                RSplit1(BeforeSemicolon(StructLineText(Line(acc.next))), <<" ">>)))

\* lines 1557-1559
StructName(line) ==
  RStrip(RStrip(LStrip(LStrip(line, {"E", "O", "S", "_", "T", "R", "U", "C"}), {"("}), {"\n"}),
         {",", " ", "("})

\* lines 1554-1624
ScanStruct ==
  /\ UNCHANGED gen_vars
  /\ AtLine
  /\ ~IsMacroLine(Line(line_index))
  /\ ~IsHandleLine(Line(line_index))
  /\ ~IsEnumLine(Line(line_index))
  /\ ~IsMethodLine(Line(line_index))
  /\ ~IsCallbackLine(Line(line_index))
  /\ IsStructLine(Line(line_index))
  /\ \E r \in {StructBlock([fields |-> <<>>, errors |-> scan_errors,
                            next |-> line_index + 1, err |-> FALSE])} :
       /\ file_lower2infos' = PutEntry("structs", StructName(Line(line_index)), r.fields)
       /\ scan_errors' = r.errors
       /\ line_index' = r.next
       /\ pc' = IF r.err THEN "scan_IndexError" ELSE pc
  /\ UNCHANGED <<scanned, interfaces, structs, handles, release_methods,
                 unhandled_methods, unhandled_callbacks, unhandled_enums,
                 struct2additional_method_requirements, expended_as_args_structs,
                 il_index, runs, first_run, lines, api_latest_macros>>

\* lines 1630-1632
ScanOther ==
  /\ UNCHANGED gen_vars
  /\ AtLine
  /\ ~IsMacroLine(Line(line_index))
  /\ ~IsHandleLine(Line(line_index))
  /\ ~IsEnumLine(Line(line_index))
  /\ ~IsMethodLine(Line(line_index))
  /\ ~IsCallbackLine(Line(line_index))
  /\ ~IsStructLine(Line(line_index))
  /\ line_index' = line_index + 1
  /\ UNCHANGED <<scanned, file_lower2infos, interfaces, structs, handles, release_methods,
                 unhandled_methods, unhandled_callbacks, unhandled_enums,
                 struct2additional_method_requirements, expended_as_args_structs,
                 pc, il_index, runs, first_run, lines, api_latest_macros, scan_errors>>

\* FinishScan handing over to the requirement derivation at once.
FinishScan_NoConsolidation ==
  /\ UNCHANGED gen_vars
  /\ pc = "scan"
  /\ line_index >= Len(lines)
  /\ file_lower2infos' =
       [f \in 1..Len(file_lower2infos) |->
          [k |-> file_lower2infos[f].k,
           v |-> [file_lower2infos[f].v EXCEPT
                    !.enums = SpecialEnums(file_lower2infos[f].k, @)]]]
  /\ scanned' = file_lower2infos'
  /\ pc' = "requirements"
  /\ UNCHANGED <<interfaces, structs, handles, release_methods,
                 unhandled_methods, unhandled_callbacks, unhandled_enums,
                 struct2additional_method_requirements, expended_as_args_structs,
                 il_index, runs, first_run, lines, line_index, api_latest_macros,
                 scan_errors>>

\* The end of the scan loop and lines 152-154: the three special enums are
\* added and the consolidation starts.
FinishScan ==
  /\ UNCHANGED gen_vars
  /\ pc = "scan"
  /\ line_index >= Len(lines)
  /\ file_lower2infos' =
       [f \in 1..Len(file_lower2infos) |->
          [k |-> file_lower2infos[f].k,
           v |-> [file_lower2infos[f].v EXCEPT
                    !.enums = SpecialEnums(file_lower2infos[f].k, @)]]]
  /\ scanned' = file_lower2infos'
  /\ pc' = "consolidate"
  /\ UNCHANGED <<interfaces, structs, handles, release_methods,
                 unhandled_methods, unhandled_callbacks, unhandled_enums,
                 struct2additional_method_requirements, expended_as_args_structs,
                 il_index, runs, first_run, lines, line_index, api_latest_macros,
                 scan_errors>>

\* ------------------------------------------------------ the scanned headers

\* The most lines or unions in the body of the enum block, and in the body of
\* the struct block, of the scanned header.
MaxBodyItems == 2

\* the lines an enum block's body is made of: two members, one with a
\* trailing comma, a comment, the continuation of a comment, an empty line
EnumItems ==
  {<<"\t", "E", "O", "S", "_", "A", "S", "_", "N", "o", "F", "l", "a", "g", "s", " ", "=", " ", "0", "x", "0", ",", "\n">>, <<"\t", "E", "O", "S", "_", "A", "S", "_", "B", "a", "s", "i", "c", "P", "r", "o", "f", "i", "l", "e", " ", "=", " ", "0", "x", "1", "\n">>,
   <<"\t", "/", "*", "*", " ", "A", "l", "l", " ", "s", "c", "o", "p", "e", "s", " ", "*", "/", "\n">>, <<"\t", " ", "*", " ", "o", "f", " ", "t", "h", "e", " ", "a", "c", "c", "o", "u", "n", "t", "\n">>, <<"\n">>}

UnionLines(arm) ==
  <<<<"\t", "u", "n", "i", "o", "n", "\n">>, <<"\t", "{", "\n">>, <<"\t", "\t", "i", "n", "t", "6", "4", "_", "t", " ", "A", "s", "I", "n", "t", "6", "4", ";", "\n">>, arm, <<"\t", "}", " ", "V", "a", "l", "u", "e", ";", "\n">>>>

\* what a struct block's body is made of: two fields, a comment, an empty
\* line, a line with one token, a union, a union with an arm of one token
StructItems ==
  {<<<<"\t", "i", "n", "t", "3", "2", "_", "t", " ", "A", "p", "i", "V", "e", "r", "s", "i", "o", "n", ";", "\n">>>>, <<<<"\t", "c", "o", "n", "s", "t", " ", "c", "h", "a", "r", "*", " ", "N", "a", "m", "e", ";", "\n">>>>,
   <<<<"\t", "/", "*", "*", " ", "T", "h", "e", " ", "n", "a", "m", "e", " ", "*", "/", "\n">>>>, <<<<"\n">>>>, <<<<"\t", "E", "O", "S", "_", "B", "o", "o", "l", ";", "\n">>>>,
   UnionLines(<<"\t", "\t", "d", "o", "u", "b", "l", "e", " ", "A", "s", "D", "o", "u", "b", "l", "e", ";", "\n">>), UnionLines(<<"\t", "\t", "d", "o", "u", "b", "l", "e", ";", "\n">>)}

\* the sequences of at most MaxBodyItems different elements of items
Bodies(items) ==
  {b \in UNION {[1..n -> items] : n \in 0..MaxBodyItems} :
     \A x \in DOMAIN b, y \in DOMAIN b : b[x] = b[y] => x = y}

\* eos_auth.h: a version macro, the handle typedef, a method, its callback,
\* an enum block and a struct block, which ends with its terminator or not
Header(enum_body, struct_body, terminated) ==
  <<<<"#", "d", "e", "f", "i", "n", "e", " ", "E", "O", "S", "_", "A", "U", "T", "H", "_", "L", "O", "G", "I", "N", "_", "A", "P", "I", "_", "L", "A", "T", "E", "S", "T", " ", "2", "\n">>,
    <<"E", "X", "T", "E", "R", "N", "_", "C", " ", "t", "y", "p", "e", "d", "e", "f", " ", "s", "t", "r", "u", "c", "t", " ", "E", "O", "S", "_", "A", "u", "t", "h", "H", "a", "n", "d", "l", "e", "*", " ", "E", "O", "S", "_", "H", "A", "u", "t", "h", ";", "\n">>,
    <<"\n">>,
    <<"E", "O", "S", "_", "E", "N", "U", "M", "(", "E", "O", "S", "_", "E", "A", "u", "t", "h", "S", "c", "o", "p", "e", ",", "\n">>>>
  \o enum_body
  \o <<<<")", ";", "\n">>,
       <<"E", "O", "S", "_", "D", "E", "C", "L", "A", "R", "E", "_", "F", "U", "N", "C", "(", "v", "o", "i", "d", ")", " ", "E", "O", "S", "_", "A", "u", "t", "h", "_", "L", "o", "g", "i", "n", "(", "E", "O", "S", "_", "H", "A", "u", "t", "h", " ", "H", "a", "n", "d", "l", "e", ",", " ", "c", "o", "n", "s", "t", " ", "S", "*", " ", "O", "p", "t", "i", "o", "n", "s", ",", " ", "c", "o", "n", "s", "t", " ", "E", "O", "S", "_", "A", "u", "t", "h", "_", "O", "n", "L", "o", "g", "i", "n", "C", "a", "l", "l", "b", "a", "c", "k", " ", "D", "o", "n", "e", ")", ";", "\n">>,
       <<"E", "O", "S", "_", "D", "E", "C", "L", "A", "R", "E", "_", "C", "A", "L", "L", "B", "A", "C", "K", "(", "E", "O", "S", "_", "A", "u", "t", "h", "_", "O", "n", "L", "o", "g", "i", "n", "C", "a", "l", "l", "b", "a", "c", "k", ",", " ", "c", "o", "n", "s", "t", " ", "E", "O", "S", "_", "A", "u", "t", "h", "_", "L", "o", "g", "i", "n", "C", "a", "l", "l", "b", "a", "c", "k", "I", "n", "f", "o", "*", " ", "D", "a", "t", "a", ")", ";", "\n">>,
       <<"E", "O", "S", "_", "S", "T", "R", "U", "C", "T", "(", "S", ",", " ", "(", "\n">>>>
  \o Join(struct_body)
  \o (IF terminated THEN <<<<")", ")", ";", "\n">>>> ELSE <<>>)

\* parse_all_file at the scan of eos_auth.h: the tables of common, auth and
\* ui exist and are empty (eos_ui.h, scanned next, declares nothing).
StartScan(header) ==
  /\ GenIdle
  /\ lines = header
  /\ line_index = 0
  /\ api_latest_macros = <<>>
  /\ scan_errors = <<>>
  /\ scanned = <<>>
  /\ file_lower2infos = <<[k |-> <<"c", "o", "m", "m", "o", "n">>, v |-> EmptyInfos],
                          [k |-> <<"a", "u", "t", "h">>, v |-> EmptyInfos],
                          [k |-> <<"u", "i">>, v |-> EmptyInfos]>>
  /\ interfaces = InitialInterfaces
  /\ structs = <<>>
  /\ handles = <<>>
  /\ release_methods = <<>>
  /\ unhandled_methods = <<>>
  /\ unhandled_callbacks = <<>>
  /\ unhandled_enums = <<>>
  /\ struct2additional_method_requirements = <<>>
  /\ expended_as_args_structs = <<>>
  /\ pc = "scan"
  /\ il_index = 1
  /\ runs = 1
  /\ first_run = <<>>

DefaultEnumBody == <<<<"\t", "E", "O", "S", "_", "A", "S", "_", "N", "o", "F", "l", "a", "g", "s", " ", "=", " ", "0", "x", "0", ",", "\n">>, <<"\t", "E", "O", "S", "_", "A", "S", "_", "B", "a", "s", "i", "c", "P", "r", "o", "f", "i", "l", "e", " ", "=", " ", "0", "x", "1", "\n">>>>

DefaultStructBody == <<<<<<"\t", "i", "n", "t", "3", "2", "_", "t", " ", "A", "p", "i", "V", "e", "r", "s", "i", "o", "n", ";", "\n">>>>, <<<<"\t", "c", "o", "n", "s", "t", " ", "c", "h", "a", "r", "*", " ", "N", "a", "m", "e", ";", "\n">>>>>>

\* every enum body with the default struct block, every struct body,
\* terminated or not, with the default enum block
InitScan ==
  \E enum_body \in Bodies(EnumItems), struct_body \in Bodies(StructItems),
     terminated \in BOOLEAN :
    /\ enum_body = DefaultEnumBody \/ (struct_body = DefaultStructBody /\ terminated)
    /\ StartScan(Header(enum_body, struct_body, terminated))

NextScan ==
  \/ ScanMacro
  \/ ScanHandle
  \/ ScanEnum
  \/ ScanMethod
  \/ ScanCallback
  \/ ScanStruct
  \/ ScanOther
  \/ FinishScan
  \/ Next

\* The scan of one header followed by the consolidation and the struct
\* analysis.
SpecScan == InitScan /\ [][NextScan]_vars

\* ------------------------------------------------- claims about the scanner

\* The lines of the scanned headers that declare a field of the struct, with
\* the field each declares: a field line, and the closing line of a union block.
FieldDeclarations ==
  <<[line |-> <<"\t", "i", "n", "t", "3", "2", "_", "t", " ", "A", "p", "i", "V", "e", "r", "s", "i", "o", "n", ";", "\n">>, name |-> <<"A", "p", "i", "V", "e", "r", "s", "i", "o", "n">>],
    [line |-> <<"\t", "c", "o", "n", "s", "t", " ", "c", "h", "a", "r", "*", " ", "N", "a", "m", "e", ";", "\n">>, name |-> <<"N", "a", "m", "e">>],
    [line |-> <<"\t", "}", " ", "V", "a", "l", "u", "e", ";", "\n">>, name |-> <<"V", "a", "l", "u", "e">>]>>

\* The fields the lines ls declare, in the order of the lines; a name declared
\* again keeps the place of its first declaration.
RECURSIVE DeclaredFields(_, _)
DeclaredFields(acc, ls) ==
  IF ls = <<>> THEN acc
  ELSE DeclaredFields(
         acc \o [i \in 1..Cardinality({d \in 1..Len(FieldDeclarations) :
                                         /\ FieldDeclarations[d].line = Head(ls)
                                         /\ \A a \in 1..Len(acc) :
                                              acc[a] # FieldDeclarations[d].name})
                 |-> FieldDeclarations[CHOOSE d \in 1..Len(FieldDeclarations) :
                                         FieldDeclarations[d].line = Head(ls)].name],
         Tail(ls))

\* The struct of the scanned headers.
ScannedStruct == <<"S">>

\* The file table of the scanned file holds the struct.
InFileTable ==
  /\ Has(file_lower2infos, ScannedFile)
  /\ "structs" \in DOMAIN Get(file_lower2infos, ScannedFile)
  /\ Has(Get(file_lower2infos, ScannedFile).structs, ScannedStruct)

\* C15: the fields of a scanned struct are, in the file table and in the global
\* struct table after consolidation, in the order their declarations have in the
\* header, a union block standing as one field at the place of the block.
C15_FieldOrder ==
  /\ InFileTable =>
       KeySeq(Get(Get(file_lower2infos, ScannedFile).structs, ScannedStruct))
         = DeclaredFields(<<>>, lines)
  /\ Has(structs, ScannedStruct) =>
       KeySeq(Get(structs, ScannedStruct)) = DeclaredFields(<<>>, lines)

\* A union block followed by a field was scanned and consolidated: the union
\* field comes first in the global struct table.
C15_Witness ==
  /\ pc = "done"
  /\ Has(structs, ScannedStruct)
  /\ KeySeq(Get(structs, ScannedStruct)) = <<<<"V", "a", "l", "u", "e">>, <<"A", "p", "i", "V", "e", "r", "s", "i", "o", "n">>>>
  /\ StartsWith(Get(Get(structs, ScannedStruct), <<"V", "a", "l", "u", "e">>), <<"U", "n", "i", "o", "n", "{">>)

\* The lines of the scanned headers that declare a member of the enum, with the
\* member each declares.
MemberDeclarations ==
  <<[line |-> <<"\t", "E", "O", "S", "_", "A", "S", "_", "N", "o", "F", "l", "a", "g", "s", " ", "=", " ", "0", "x", "0", ",", "\n">>, name |-> <<"E", "O", "S", "_", "A", "S", "_", "N", "o", "F", "l", "a", "g", "s">>],
    [line |-> <<"\t", "E", "O", "S", "_", "A", "S", "_", "B", "a", "s", "i", "c", "P", "r", "o", "f", "i", "l", "e", " ", "=", " ", "0", "x", "1", "\n">>, name |-> <<"E", "O", "S", "_", "A", "S", "_", "B", "a", "s", "i", "c", "P", "r", "o", "f", "i", "l", "e">>]>>

\* The members the lines ls declare, in the order of the lines.
RECURSIVE DeclaredMembers(_)
DeclaredMembers(ls) ==
  IF ls = <<>> THEN <<>>
  ELSE [i \in 1..Cardinality({d \in 1..Len(MemberDeclarations) :
                                MemberDeclarations[d].line = Head(ls)})
        |-> MemberDeclarations[CHOOSE d \in 1..Len(MemberDeclarations) :
                                 MemberDeclarations[d].line = Head(ls)].name]
       \o DeclaredMembers(Tail(ls))

\* The enum of the scanned headers.
ScannedEnum == <<"E", "O", "S", "_", "E", "A", "u", "t", "h", "S", "c", "o", "p", "e">>

\* The file table of the scanned file holds the enum.
EnumInFileTable ==
  /\ Has(file_lower2infos, ScannedFile)
  /\ "enums" \in DOMAIN Get(file_lower2infos, ScannedFile)
  /\ Has(Get(file_lower2infos, ScannedFile).enums, ScannedEnum)

\* C16: the members of a scanned enum are, in order, the identifiers the enum
\* block declares, their values stripped; a blank line or a comment line gives
\* no member, and no member is empty.
C16_EnumMembers ==
  EnumInFileTable =>
    /\ Get(Get(file_lower2infos, ScannedFile).enums, ScannedEnum) = DeclaredMembers(lines)
    /\ \A m \in 1..Len(Get(Get(file_lower2infos, ScannedFile).enums, ScannedEnum)) :
         Get(Get(file_lower2infos, ScannedFile).enums, ScannedEnum)[m] # <<>>

\* The lines of the scanned headers, inside the struct block, that cannot be
\* split into a type and a name: a field line and a union arm.
UnsplittableLines == {<<"\t", "E", "O", "S", "_", "B", "o", "o", "l", ";", "\n">>, <<"\t", "\t", "d", "o", "u", "b", "l", "e", ";", "\n">>}

HasUnsplittableLine == \E n \in 1..Len(lines) : lines[n] \in UnsplittableLines

\* C17: when a line of a struct block cannot be split into a type and a name,
\* the scan halts there: it reads no further line, the run goes on to no later
\* phase, and no table holds the struct.
C17_UnsplittableLineHalts ==
  (HasUnsplittableLine /\ scan_errors # <<>>) =>
    /\ pc \in {"scan", "scan_IndexError"}
    /\ ~InFileTable
    /\ ~Has(structs, ScannedStruct)

\* ------------------------------------ gen_structs, _gen_struct (1218-1234, 2004-2034)

\* Python's None
None == <<"None">>

IsUpper(c) == \E i \in 1..Len(UpperChars) : UpperChars[i] = c

\* str.replace(old, new)
RECURSIVE Replace(_, _, _)
Replace(s, old, new) ==
  IF Len(s) = 0 THEN <<>>
  ELSE IF StartsWith(s, old) THEN new \o Replace(SubSeq(s, Len(old) + 1, Len(s)), old, new)
  ELSE <<Head(s)>> \o Replace(Tail(s), old, new)

\* lines 1257-1270
to_snake_case(text) ==
  Replace(Replace(Replace(Replace(Replace(Replace(Replace(
    LStrip(Join([i \in 1..Len(text) |->
                   IF IsUpper(text[i]) THEN <<"_", LowerChar(text[i])>> ELSE <<text[i]>>]),
           {"_"}),
    <<"u", "_", "r", "_", "i">>, <<"u", "r", "i">>), <<"b", "_", "i", "s">>, <<"i", "s">>), <<"r", "_", "t", "_", "c">>, <<"r", "t", "c">>), <<"u", "_", "i", "_">>, <<"u", "i", "_">>), <<"k", "_", "w", "_", "s">>, <<"k", "w", "s">>),
    <<"p", "2", "_", "p", "_">>, <<"p", "2", "p", "_">>), <<"n", "_", "a", "_", "t">>, <<"n", "a", "t">>)

\* lines 1049-1067
is_deprecated_field(field) ==
  \/ EndsWith(field, <<"_", "D", "E", "P", "R", "E", "C", "A", "T", "E", "D">>)
  \/ field = <<"R", "e", "s", "e", "r", "v", "e", "d">>
  \/ field \in {<<"R", "e", "a", "d", "F", "i", "l", "e", "D", "a", "t", "a", "C", "a", "l", "l", "b", "a", "c", "k">>, <<"F", "i", "l", "e", "T", "r", "a", "n", "s", "f", "e", "r", "P", "r", "o", "g", "r", "e", "s", "s", "C", "a", "l", "l", "b", "a", "c", "k">>, <<"W", "r", "i", "t", "e", "F", "i", "l", "e", "D", "a", "t", "a", "C", "a", "l", "l", "b", "a", "c", "k">>}
  \/ field = <<"P", "l", "a", "t", "f", "o", "r", "m", "S", "p", "e", "c", "i", "f", "i", "c", "O", "p", "t", "i", "o", "n", "s">>
  \/ field = <<"S", "y", "s", "t", "e", "m", "S", "p", "e", "c", "i", "f", "i", "c", "O", "p", "t", "i", "o", "n", "s">>
  \/ field = <<"I", "n", "i", "t", "O", "p", "t", "i", "o", "n", "s">>
  \/ field = <<"I", "n", "t", "e", "g", "r", "a", "t", "e", "d", "P", "l", "a", "t", "f", "o", "r", "m", "O", "p", "t", "i", "o", "n", "s", "C", "o", "n", "t", "a", "i", "n", "e", "r", "H", "a", "n", "d", "l", "e">>
  \/ field = <<"S", "y", "s", "t", "e", "m", "M", "e", "m", "o", "r", "y", "M", "o", "n", "i", "t", "o", "r", "R", "e", "p", "o", "r", "t">>

\* lines 1912-1916
_is_internal_struct_field(type, field) == Has(structs, _decay_eos_type(type))

\* lines 1923-1924
_is_variant_union_type(type, field) == StartsWith(type, <<"U", "n", "i", "o", "n">>) /\ field # <<"A", "c", "c", "o", "u", "n", "t", "I", "d">>

\* lines 1941-1942
_is_requested_channel_ptr_field(type, field) ==
  type = <<"c", "o", "n", "s", "t", " ", "u", "i", "n", "t", "8", "_", "t", "*">> /\ field = <<"R", "e", "q", "u", "e", "s", "t", "e", "d", "C", "h", "a", "n", "n", "e", "l">>

\* lines 1945-1961
_is_arr_field(type, field) ==
  IF _is_internal_struct_arr_field(type, field) THEN FALSE
  ELSE IF _is_internal_struct_field(type, field) THEN FALSE
  ELSE IF _is_requested_channel_ptr_field(type, field) THEN FALSE
  ELSE IF type \in {<<"c", "o", "n", "s", "t", " ", "c", "h", "a", "r", "*">>, <<"c", "o", "n", "s", "t", " ", "v", "o", "i", "d", "*">>, <<"v", "o", "i", "d", "*">>} THEN FALSE
  ELSE IF type = <<"c", "o", "n", "s", "t", " ", "v", "o", "i", "d", "*">> /\ field \in {<<"P", "l", "a", "t", "f", "o", "r", "m", "S", "p", "e", "c", "i", "f", "i", "c", "D", "a", "t", "a">>, <<"S", "y", "s", "t", "e", "m", "M", "e", "m", "o", "r", "y", "M", "o", "n", "i", "t", "o", "r", "R", "e", "p", "o", "r", "t">>}
  THEN FALSE
  ELSE EndsWith(type, <<"*">>)

\* the suffix test of lines 1975-1981
IsCountLike(f) ==
  \/ EndsWith(f, <<"C", "o", "u", "n", "t">>)
  \/ EndsWith(f, <<"S", "i", "z", "e">>)
  \/ EndsWith(f, <<"L", "e", "n", "g", "t", "h">>)
  \/ EndsWith(f, <<"L", "e", "n", "g", "t", "h", "B", "y", "t", "e", "s">>)
  \/ EndsWith(f, <<"S", "i", "z", "e", "B", "y", "t", "e", "s">>)

\* min(2, len(fsplited), len(splited)) of lines 1984 and 1991
TokenLimit(fsplited, splited) ==
  IF Len(fsplited) < 2 \/ Len(splited) < 2
  THEN (IF Len(fsplited) < Len(splited) THEN Len(fsplited) ELSE Len(splited))
  ELSE 2

\* SimilarTokens comparing the tokens as they are, no plural ending removed.
RECURSIVE SimilarTokens_AsWritten(_, _, _, _)
SimilarTokens_AsWritten(fsplited, splited, i, limit) ==
  IF i > limit THEN 0
  ELSE IF fsplited[i] = splited[i]
  THEN 1 + SimilarTokens_AsWritten(fsplited, splited, i + 1, limit)
  ELSE 0

\* `similar` after the loop of lines 1983-1990; i counts from 1
RECURSIVE SimilarTokens(_, _, _, _)
SimilarTokens(fsplited, splited, i, limit) ==
  IF i > limit THEN 0
  ELSE IF RemoveSuffix(RemoveSuffix(fsplited[i], <<"s">>), <<"y">>)
          = RemoveSuffix(RemoveSuffix(splited[i], <<"i", "e", "s">>), <<"s">>)
  THEN 1 + SimilarTokens(fsplited, splited, i + 1, limit)
  ELSE 0

\* line 1973: `f == fields` compares a field name with the whole key view, which
\* no name equals, so no candidate is passed over, the array field itself
\* included.
IsPassedOver(f, fields) == FALSE

\* `similar` of candidate f for the array field `field` (lines 1970, 1982-1990)
Similar(f, field) ==
  SimilarTokens(Split(to_snake_case(f), "_"), Split(to_snake_case(field), "_"), 1,
                TokenLimit(Split(to_snake_case(f), "_"), Split(to_snake_case(field), "_")))

\* the test of line 1991
IsFullMatch(f, field) ==
  Similar(f, field) >=
    TokenLimit(Split(to_snake_case(f), "_"), Split(to_snake_case(field), "_"))

\* `for f in fields` of lines 1972-1997: ret is the value returned,
\* similars_fileds the list as it is on return.
RECURSIVE CountLoop(_, _, _, _)
CountLoop(field, fields, rest, similars_fileds) ==
  IF rest = <<>>
  THEN [ret |-> IF Len(similars_fileds) = 1 THEN similars_fileds[1] ELSE None,
        similars_fileds |-> similars_fileds]
  ELSE IF IsPassedOver(Head(rest), fields) \/ ~IsCountLike(Head(rest))
  THEN CountLoop(field, fields, Tail(rest), similars_fileds)
  ELSE IF IsFullMatch(Head(rest), field)
  THEN [ret |-> Head(rest), similars_fileds |-> similars_fileds]
  ELSE IF Similar(Head(rest), field) > 0
  THEN CountLoop(field, fields, Tail(rest), Append(similars_fileds, Head(rest)))
  ELSE CountLoop(field, fields, Tail(rest), similars_fileds)

\* lines 1969-2001; the report of line 1999 is printed when ret is None
_find_count_field(field, fields) == CountLoop(field, fields, fields, <<>>)

\* lines 977-981
_is_need_skip_struct(struct_type) ==
  struct_type \in {<<"E", "O", "S", "_", "A", "n", "t", "i", "C", "h", "e", "a", "t", "C", "o", "m", "m", "o", "n", "_", "Q", "u", "a", "t">>, <<"E", "O", "S", "_", "A", "n", "t", "i", "C", "h", "e", "a", "t", "C", "o", "m", "m", "o", "n", "_", "V", "e", "c", "3", "f">>}

\* lines 1214-1215
_is_expended_struct(struct_type) ==
  \E i \in 1..Len(expended_as_args_structs) :
    expended_as_args_structs[i] = _decay_eos_type(struct_type)

parse_vars ==
  <<scanned, file_lower2infos, interfaces, structs, handles, release_methods,
    unhandled_methods, unhandled_callbacks, unhandled_enums,
    struct2additional_method_requirements, expended_as_args_structs,
    il_index, runs, first_run>>

\* gen_structs is called after parse_all_file has returned (lines 63, 74)
GenStructsStart ==
  /\ pc = "done"
  /\ pc' = "gen_structs"
  /\ gs_index' = 1
  /\ UNCHANGED <<gen_struct_type, gen_index, count_fields, variant_union_type_fileds,
                 count_reports>>
  /\ UNCHANGED <<struct_lines, r_structs_cpp>>
  /\ UNCHANGED handle_vars
  /\ UNCHANGED parse_vars
  /\ UNCHANGED scan_vars

\* one pass of `for struct_type in structs` up to the call of _gen_struct
\* (lines 1228-1234, 2017-2018)
GenStructsStep ==
  /\ pc = "gen_structs"
  /\ gs_index <= Len(structs)
  /\ IF _is_expended_struct(structs[gs_index].k) \/ _is_need_skip_struct(structs[gs_index].k)
     THEN /\ gs_index' = gs_index + 1
          /\ UNCHANGED <<pc, gen_struct_type, gen_index, count_fields,
                         variant_union_type_fileds>>
     ELSE /\ pc' = "gen_struct"
          /\ gen_struct_type' = structs[gs_index].k
          /\ gen_index' = 1
          /\ count_fields' = <<>>
          /\ variant_union_type_fileds' = <<>>
          /\ UNCHANGED gs_index
  /\ UNCHANGED count_reports
  /\ UNCHANGED <<struct_lines, r_structs_cpp>>
  /\ UNCHANGED handle_vars
  /\ UNCHANGED parse_vars
  /\ UNCHANGED scan_vars

\* the fields named field + "Type" (lines 2032-2034)
TypeSiblings(field, fields) == SelectSeq(fields, LAMBDA f : f = field \o <<"T", "y", "p", "e">>)

\* one pass of `for field in fields.keys()` (lines 2019-2034)
GenStructField ==
  /\ pc = "gen_struct"
  /\ gen_index <= Len(Get(structs, gen_struct_type))
  /\ \E fields \in {KeySeq(Get(structs, gen_struct_type))} :
     \E field \in {fields[gen_index]} :
     \E field_type \in {Get(Get(structs, gen_struct_type), field)} :
       IF is_deprecated_field(field)
       THEN UNCHANGED <<count_fields, variant_union_type_fileds, count_reports>>
       ELSE
         /\ IF _is_arr_field(field_type, field) \/ _is_internal_struct_arr_field(field_type, field)
            THEN \E r \in {_find_count_field(field, fields)} :
                   /\ count_fields' = Append(count_fields, r.ret)
                   /\ count_reports' =
                        IF r.ret = None
                        THEN Append(count_reports,
                                    [field |-> field, similars_fileds |-> r.similars_fileds])
                        ELSE count_reports
            ELSE UNCHANGED <<count_fields, count_reports>>
         /\ variant_union_type_fileds' =
              IF _is_variant_union_type(field_type, field)
              THEN variant_union_type_fileds \o TypeSiblings(field, fields)
              ELSE variant_union_type_fileds
  /\ gen_index' = gen_index + 1
  /\ UNCHANGED <<pc, gs_index, gen_struct_type>>
  /\ UNCHANGED <<struct_lines, r_structs_cpp>>
  /\ UNCHANGED handle_vars
  /\ UNCHANGED parse_vars
  /\ UNCHANGED scan_vars

\* ------------------------------------ _gen_struct, the emitted class (2036-2231)

\* enum_types (line 8): no statement of the program appends to it
enum_types == <<>>

\* the exception of uion_field_map[field] (line 1083) and the exit() of
\* __get_api_latest_macro (line 543)
KeyError == <<"KeyError">>

Exit == <<"exit">>

\* lines 361-362
__is_struct_type(type) == Has(structs, type)

\* simple_remap of remap_type (lines 1134-1182)
simple_remap ==
  <<[k |-> <<"v", "o", "i", "d">>, v |-> <<"v", "o", "i", "d">>],
    [k |-> <<"u", "i", "n", "t", "8", "_", "t">>, v |-> <<"u", "i", "n", "t", "8", "_", "t">>],
    [k |-> <<"i", "n", "t", "6", "4", "_", "t">>, v |-> <<"i", "n", "t", "6", "4", "_", "t">>],
    [k |-> <<"i", "n", "t", "3", "2", "_", "t">>, v |-> <<"i", "n", "t", "3", "2", "_", "t">>],
    [k |-> <<"u", "i", "n", "t", "1", "6", "_", "t">>, v |-> <<"u", "i", "n", "t", "1", "6", "_", "t">>],
    [k |-> <<"u", "i", "n", "t", "3", "2", "_", "t">>, v |-> <<"u", "i", "n", "t", "3", "2", "_", "t">>],
    [k |-> <<"u", "i", "n", "t", "6", "4", "_", "t">>, v |-> <<"u", "i", "n", "t", "6", "4", "_", "t">>],
    [k |-> <<"E", "O", "S", "_", "U", "I", "_", "E", "v", "e", "n", "t", "I", "d">>, v |-> <<"u", "i", "n", "t", "6", "4", "_", "t">>],
    [k |-> <<"E", "O", "S", "_", "B", "o", "o", "l">>, v |-> <<"b", "o", "o", "l">>],
    [k |-> <<"f", "l", "o", "a", "t">>, v |-> <<"f", "l", "o", "a", "t">>],
    [k |-> <<"E", "O", "S", "_", "P", "r", "o", "d", "u", "c", "t", "U", "s", "e", "r", "I", "d">>, v |-> <<"S", "t", "r", "i", "n", "g">>],
    [k |-> <<"E", "O", "S", "_", "E", "p", "i", "c", "A", "c", "c", "o", "u", "n", "t", "I", "d">>, v |-> <<"S", "t", "r", "i", "n", "g">>],
    [k |-> <<"E", "O", "S", "_", "L", "o", "b", "b", "y", "I", "d">>, v |-> <<"S", "t", "r", "i", "n", "g">>],
    [k |-> <<"c", "o", "n", "s", "t", " ", "c", "h", "a", "r", "*">>, v |-> <<"S", "t", "r", "i", "n", "g">>],
    [k |-> <<"E", "O", "S", "_", "E", "c", "o", "m", "_", "S", "a", "n", "d", "b", "o", "x", "I", "d">>, v |-> <<"S", "t", "r", "i", "n", "g">>],
    [k |-> <<"c", "o", "n", "s", "t", " ", "E", "O", "S", "_", "E", "c", "o", "m", "_", "C", "a", "t", "a", "l", "o", "g", "I", "t", "e", "m", "I", "d", "*">>, v |-> <<"P", "a", "c", "k", "e", "d", "S", "t", "r", "i", "n", "g", "A", "r", "r", "a", "y">>],
    [k |-> <<"i", "n", "t", "1", "6", "_", "t", "*">>, v |-> <<"P", "a", "c", "k", "e", "d", "I", "n", "t", "3", "2", "A", "r", "r", "a", "y">>],
    [k |-> <<"E", "O", "S", "_", "A", "n", "t", "i", "C", "h", "e", "a", "t", "C", "o", "m", "m", "o", "n", "_", "V", "e", "c", "3", "f", "*">>, v |-> <<"V", "e", "c", "t", "o", "r", "3">>],
    [k |-> <<"E", "O", "S", "_", "A", "n", "t", "i", "C", "h", "e", "a", "t", "C", "o", "m", "m", "o", "n", "_", "Q", "u", "a", "t", "*">>, v |-> <<"Q", "u", "a", "t", "e", "r", "n", "i", "o", "n">>],
    [k |-> <<"c", "o", "n", "s", "t", " ", "c", "h", "a", "r", "*", "*">>, v |-> <<"P", "a", "c", "k", "e", "d", "S", "t", "r", "i", "n", "g", "A", "r", "r", "a", "y">>],
    [k |-> <<"E", "O", "S", "_", "E", "c", "o", "m", "_", "C", "a", "t", "a", "l", "o", "g", "O", "f", "f", "e", "r", "I", "d">>, v |-> <<"S", "t", "r", "i", "n", "g">>],
    [k |-> <<"E", "O", "S", "_", "E", "c", "o", "m", "_", "E", "n", "t", "i", "t", "l", "e", "m", "e", "n", "t", "I", "d">>, v |-> <<"S", "t", "r", "i", "n", "g">>],
    [k |-> <<"E", "O", "S", "_", "E", "c", "o", "m", "_", "C", "a", "t", "a", "l", "o", "g", "I", "t", "e", "m", "I", "d">>, v |-> <<"S", "t", "r", "i", "n", "g">>],
    [k |-> <<"E", "O", "S", "_", "E", "c", "o", "m", "_", "E", "n", "t", "i", "t", "l", "e", "m", "e", "n", "t", "N", "a", "m", "e">>, v |-> <<"S", "t", "r", "i", "n", "g">>],
    [k |-> <<"E", "O", "S", "_", "E", "c", "o", "m", "_", "E", "n", "t", "i", "t", "l", "e", "m", "e", "n", "t", "I", "d", "*">>, v |-> <<"P", "a", "c", "k", "e", "d", "S", "t", "r", "i", "n", "g", "A", "r", "r", "a", "y">>],
    [k |-> <<"E", "O", "S", "_", "E", "c", "o", "m", "_", "C", "a", "t", "a", "l", "o", "g", "I", "t", "e", "m", "I", "d", "*">>, v |-> <<"P", "a", "c", "k", "e", "d", "S", "t", "r", "i", "n", "g", "A", "r", "r", "a", "y">>],
    [k |-> <<"E", "O", "S", "_", "P", "r", "o", "d", "u", "c", "t", "U", "s", "e", "r", "I", "d", "*">>, v |-> <<"P", "a", "c", "k", "e", "d", "S", "t", "r", "i", "n", "g", "A", "r", "r", "a", "y">>],
    [k |-> <<"c", "o", "n", "s", "t", " ", "E", "O", "S", "_", "P", "r", "o", "d", "u", "c", "t", "U", "s", "e", "r", "I", "d", "*">>, v |-> <<"P", "a", "c", "k", "e", "d", "S", "t", "r", "i", "n", "g", "A", "r", "r", "a", "y">>],
    [k |-> <<"E", "O", "S", "_", "E", "c", "o", "m", "_", "S", "a", "n", "d", "b", "o", "x", "I", "d", "*">>, v |-> <<"P", "a", "c", "k", "e", "d", "S", "t", "r", "i", "n", "g", "A", "r", "r", "a", "y">>],
    [k |-> <<"c", "o", "n", "s", "t", " ", "c", "h", "a", "r", "*", " ", "c", "o", "n", "s", "t", "*">>, v |-> <<"P", "a", "c", "k", "e", "d", "S", "t", "r", "i", "n", "g", "A", "r", "r", "a", "y">>],
    [k |-> <<"E", "O", "S", "_", "E", "c", "o", "m", "_", "E", "n", "t", "i", "t", "l", "e", "m", "e", "n", "t", "N", "a", "m", "e", "*">>, v |-> <<"P", "a", "c", "k", "e", "d", "S", "t", "r", "i", "n", "g", "A", "r", "r", "a", "y">>],
    [k |-> <<"E", "O", "S", "_", "O", "n", "l", "i", "n", "e", "P", "l", "a", "t", "f", "o", "r", "m", "T", "y", "p", "e">>, v |-> <<"u", "i", "n", "t", "3", "2", "_", "t">>],
    [k |-> <<"c", "o", "n", "s", "t", " ", "u", "i", "n", "t", "3", "2", "_", "t", "*">>, v |-> <<"P", "a", "c", "k", "e", "d", "I", "n", "t", "6", "4", "A", "r", "r", "a", "y">>],
    [k |-> <<"E", "O", "S", "_", "I", "n", "t", "e", "g", "r", "a", "t", "e", "d", "P", "l", "a", "t", "f", "o", "r", "m", "T", "y", "p", "e">>, v |-> <<"S", "t", "r", "i", "n", "g">>],
    [k |-> <<"U", "n", "i", "o", "n", "{", "E", "O", "S", "_", "A", "n", "t", "i", "C", "h", "e", "a", "t", "C", "o", "m", "m", "o", "n", "_", "C", "l", "i", "e", "n", "t", "H", "a", "n", "d", "l", "e", " ", ":", " ", "C", "l", "i", "e", "n", "t", "H", "a", "n", "d", "l", "e", ",", " ", "c", "o", "n", "s", "t", " ", "c", "h", "a", "r", "*", " ", ":", " ", "S", "t", "r", "i", "n", "g", ",", " ", "u", "i", "n", "t", "3", "2", "_", "t", " ", ":", " ", "U", "I", "n", "t", "3", "2", ",", " ", "i", "n", ",", " ", "E", "O", "S", "_", "A", "n", "t", "i", "C", "h", "e", "a", "t", "C", "o", "m", "m", "o", "n", "_", "V", "e", "c", "3", "f", " ", ":", " ", "V", "e", "c", "3", "f", ",", " ", "E", "O", "S", "_", "A", "n", "t", "i", "C", "h", "e", "a", "t", "C", "o", "m", "m", "o", "n", "_", "Q", "u", "a", "t", " ", ":", " ", "Q", "u", "a", "t", "}">>, v |-> <<"V", "a", "r", "i", "a", "n", "t">>],
    [k |-> <<"U", "n", "i", "o", "n", "{", "i", "n", "t", "6", "4", "_", "t", " ", ":", " ", "A", "s", "I", "n", "t", "6", "4", ",", " ", "d", "o", "u", "b", "l", "e", " ", ":", " ", "A", "s", "D", "o", "u", "b", "l", "e", ",", " ", "E", "O", "S", "_", "B", "o", "o", "l", " ", ":", " ", "A", "s", "B", "o", "o", "l", ",", " ", "c", "o", "n", "s", "t", " ", "c", "h", "a", "r", "*", " ", ":", " ", "A", "s", "U", "t", "f", "8", "}">>, v |-> <<"V", "a", "i", "a", "n", "t">>],
    [k |-> <<"U", "n", "i", "o", "n", "{", "E", "O", "S", "_", "E", "p", "i", "c", "A", "c", "c", "o", "u", "n", "t", "I", "d", " ", ":", " ", "E", "p", "i", "c", ",", " ", "c", "o", "n", "s", "t", " ", "c", "h", "a", "r", "*", " ", ":", " ", "E", "x", "t", "e", "r", "n", "a", "l", "}">>, v |-> <<"S", "t", "r", "i", "n", "g">>],
    [k |-> <<"E", "O", "S", "_", "C", "o", "n", "t", "i", "n", "u", "a", "n", "c", "e", "T", "o", "k", "e", "n">>, v |-> <<"R", "e", "f", "<", "E", "O", "S", "G", "C", "o", "n", "t", "i", "n", "u", "a", "n", "c", "e", "T", "o", "k", "e", "n", ">">>],
    [k |-> <<"E", "O", "S", "_", "H", "L", "o", "b", "b", "y", "D", "e", "t", "a", "i", "l", "s">>, v |-> <<"R", "e", "f", "<", "E", "O", "S", "G", "L", "o", "b", "b", "y", "D", "e", "t", "a", "i", "l", "s", ">">>],
    [k |-> <<"E", "O", "S", "_", "H", "L", "o", "b", "b", "y", "M", "o", "d", "i", "f", "i", "c", "a", "t", "i", "o", "n">>, v |-> <<"R", "e", "f", "<", "E", "O", "S", "G", "L", "o", "b", "b", "y", "M", "o", "d", "i", "f", "i", "c", "a", "t", "i", "o", "n", ">">>],
    [k |-> <<"E", "O", "S", "_", "H", "P", "r", "e", "s", "e", "n", "c", "e", "M", "o", "d", "i", "f", "i", "c", "a", "t", "i", "o", "n">>, v |-> <<"R", "e", "f", "<", "E", "O", "S", "G", "P", "r", "e", "s", "e", "n", "c", "e", "M", "o", "d", "i", "f", "i", "c", "a", "t", "i", "o", "n", ">">>],
    [k |-> <<"E", "O", "S", "_", "H", "S", "e", "s", "s", "i", "o", "n", "M", "o", "d", "i", "f", "i", "c", "a", "t", "i", "o", "n">>, v |-> <<"R", "e", "f", "<", "E", "O", "S", "G", "S", "e", "s", "s", "i", "o", "n", "M", "o", "d", "i", "f", "i", "c", "a", "t", "i", "o", "n", ">">>],
    [k |-> <<"E", "O", "S", "_", "H", "S", "e", "s", "s", "i", "o", "n", "D", "e", "t", "a", "i", "l", "s">>, v |-> <<"R", "e", "f", "<", "E", "O", "S", "G", "S", "e", "s", "s", "i", "o", "n", "D", "e", "t", "a", "i", "l", "s", ">">>],
    [k |-> <<"E", "O", "S", "_", "H", "I", "n", "t", "e", "g", "r", "a", "t", "e", "d", "P", "l", "a", "t", "f", "o", "r", "m", "O", "p", "t", "i", "o", "n", "s", "C", "o", "n", "t", "a", "i", "n", "e", "r">>, v |-> <<"R", "e", "f", "<", "E", "O", "S", "G", "I", "n", "t", "e", "g", "r", "a", "t", "e", "d", "P", "l", "a", "t", "f", "o", "r", "m", "O", "p", "t", "i", "o", "n", "s", "C", "o", "n", "t", "a", "i", "n", "e", "r", ">">>],
    [k |-> <<"E", "O", "S", "_", "A", "n", "t", "i", "C", "h", "e", "a", "t", "C", "o", "m", "m", "o", "n", "_", "C", "l", "i", "e", "n", "t", "H", "a", "n", "d", "l", "e">>, v |-> <<"E", "O", "S", "A", "n", "t", "i", "C", "h", "e", "a", "t", "C", "o", "m", "m", "o", "n", "_", "C", "l", "i", "e", "n", "t", " ", "*">>]>>

\* condition_remap of remap_type (lines 1184-1207)
condition_remap ==
  <<[k |-> <<"v", "o", "i", "d", "*">>, v |-> <<[k |-> <<"C", "l", "i", "e", "n", "t", "D", "a", "t", "a">>, v |-> <<"V", "a", "r", "i", "a", "n", "t">>]>>],
    [k |-> <<"c", "o", "n", "s", "t", " ", "v", "o", "i", "d", "*">>, v |-> <<[k |-> <<"D", "a", "t", "a", "C", "h", "u", "n", "k">>, v |-> <<"P", "a", "c", "k", "e", "d", "B", "y", "t", "e", "A", "r", "r", "a", "y">>], [k |-> <<"M", "e", "s", "s", "a", "g", "e", "D", "a", "t", "a">>, v |-> <<"P", "a", "c", "k", "e", "d", "B", "y", "t", "e", "A", "r", "r", "a", "y">>], [k |-> <<"D", "a", "t", "a">>, v |-> <<"P", "a", "c", "k", "e", "d", "B", "y", "t", "e", "A", "r", "r", "a", "y">>], [k |-> <<"S", "y", "s", "t", "e", "m", "S", "p", "e", "c", "i", "f", "i", "c", "O", "p", "t", "i", "o", "n", "s">>, v |-> <<"V", "a", "r", "i", "a", "n", "t">>], [k |-> <<"P", "l", "a", "t", "f", "o", "r", "m", "S", "p", "e", "c", "i", "f", "i", "c", "D", "a", "t", "a">>, v |-> <<"V", "a", "r", "i", "a", "n", "t">>], [k |-> <<"I", "n", "i", "t", "O", "p", "t", "i", "o", "n", "s">>, v |-> <<"V", "a", "r", "i", "a", "n", "t">>], [k |-> <<"S", "y", "s", "t", "e", "m", "M", "e", "m", "o", "r", "y", "M", "o", "n", "i", "t", "o", "r", "R", "e", "p", "o", "r", "t">>, v |-> <<"V", "a", "r", "i", "a", "n", "t">>]>>],
    [k |-> <<"c", "h", "a", "r">>, v |-> <<[k |-> <<"S", "o", "c", "k", "e", "t", "N", "a", "m", "e", "[", "E", "O", "S", "_", "P", "2", "P", "_", "S", "O", "C", "K", "E", "T", "I", "D", "_", "S", "O", "C", "K", "E", "T", "N", "A", "M", "E", "_", "S", "I", "Z", "E", "]">>, v |-> <<"S", "t", "r", "i", "n", "g">>]>>],
    [k |-> <<"c", "o", "n", "s", "t", " ", "u", "i", "n", "t", "8", "_", "t", "*">>, v |-> <<[k |-> <<"R", "e", "q", "u", "e", "s", "t", "e", "d", "C", "h", "a", "n", "n", "e", "l">>, v |-> <<"i", "n", "t", "1", "6", "_", "t">>]>>],
    [k |-> <<"c", "o", "n", "s", "t", " ", "E", "O", "S", "_", "A", "u", "t", "h", "_", "A", "c", "c", "o", "u", "n", "t", "F", "e", "a", "t", "u", "r", "e", "R", "e", "s", "t", "r", "i", "c", "t", "e", "d", "I", "n", "f", "o", "*">>, v |-> <<[k |-> <<"A", "c", "c", "o", "u", "n", "t", "F", "e", "a", "t", "u", "r", "e", "R", "e", "s", "t", "r", "i", "c", "t", "e", "d", "I", "n", "f", "o", "_", "D", "E", "P", "R", "E", "C", "A", "T", "E", "D">>, v |-> <<"D", "i", "c", "t", "i", "o", "n", "a", "r", "y">>]>>]>>

\* d.get(key, default)
GetOr(d, key, default) == IF Has(d, key) THEN Get(d, key) ELSE default

\* lines 1070-1211; KeyError when a union field has a name uion_field_map lacks
remap_type(type, field) ==
  IF InList(enum_types, type) THEN type
  ELSE IF __is_struct_type(type) THEN <<"R", "e", "f", "<">> \o Replace(type, <<"E", "O", "S", "_">>, <<"E", "O", "S">>) \o <<">">>
  ELSE IF StartsWith(type, <<"U", "n", "i", "o", "n">>)
    THEN IF field \in {<<"P", "a", "r", "a", "m", "V", "a", "l", "u", "e">>, <<"V", "a", "l", "u", "e">>} THEN <<"V", "a", "r", "i", "a", "n", "t">>
         ELSE IF field = <<"A", "c", "c", "o", "u", "n", "t", "I", "d">> THEN <<"S", "t", "r", "i", "n", "g">>
         ELSE KeyError
  ELSE IF Has(condition_remap, type) THEN GetOr(Get(condition_remap, type), field, <<"V", "a", "r", "i", "a", "n", "t">>)
  ELSE GetOr(simple_remap, type, <<"V", "a", "r", "i", "a", "n", "t">>)

\* lines 521-543: the macro of the struct, or Exit when the run halts
__get_api_latest_macro(struct_type) ==
  IF InList(api_latest_macros, Upper(struct_type) \o <<"_", "A", "P", "I", "_", "L", "A", "T", "E", "S", "T">>)
    THEN Upper(struct_type) \o <<"_", "A", "P", "I", "_", "L", "A", "T", "E", "S", "T">>
  ELSE IF InList(api_latest_macros, Upper(RemoveSuffix(struct_type, <<"O", "p", "t", "i", "o", "n", "s">>)) \o <<"_", "A", "P", "I", "_", "L", "A", "T", "E", "S", "T">>)
    THEN Upper(RemoveSuffix(struct_type, <<"O", "p", "t", "i", "o", "n", "s">>)) \o <<"_", "A", "P", "I", "_", "L", "A", "T", "E", "S", "T">>
  ELSE IF InList(api_latest_macros, Upper(struct_type) \o <<"O", "P", "T", "I", "O", "N", "S", "_", "A", "P", "I", "_", "L", "A", "T", "E", "S", "T">>)
    THEN Upper(struct_type) \o <<"O", "P", "T", "I", "O", "N", "S", "_", "A", "P", "I", "_", "L", "A", "T", "E", "S", "T">>
  ELSE IF InList(api_latest_macros, Upper(struct_type) \o <<"_", "O", "P", "T", "I", "O", "N", "S", "_", "A", "P", "I", "_", "L", "A", "T", "E", "S", "T">>)
    THEN Upper(struct_type) \o <<"_", "O", "P", "T", "I", "O", "N", "S", "_", "A", "P", "I", "_", "L", "A", "T", "E", "S", "T">>
  ELSE IF struct_type \in {<<"E", "O", "S", "_", "U", "s", "e", "r", "I", "n", "f", "o">>, <<"E", "O", "S", "_", "U", "s", "e", "r", "I", "n", "f", "o", "_", "C", "o", "p", "y", "U", "s", "e", "r", "I", "n", "f", "o", "O", "p", "t", "i", "o", "n", "s">>}
    THEN <<"E", "O", "S", "_", "U", "S", "E", "R", "I", "N", "F", "O", "_", "C", "O", "P", "Y", "U", "S", "E", "R", "I", "N", "F", "O", "_", "A", "P", "I", "_", "L", "A", "T", "E", "S", "T">>
  ELSE IF struct_type = <<"E", "O", "S", "_", "S", "e", "s", "s", "i", "o", "n", "S", "e", "a", "r", "c", "h", "_", "S", "e", "t", "M", "a", "x", "R", "e", "s", "u", "l", "t", "s", "O", "p", "t", "i", "o", "n", "s">>
    THEN <<"E", "O", "S", "_", "S", "E", "S", "S", "I", "O", "N", "S", "E", "A", "R", "C", "H", "_", "S", "E", "T", "M", "A", "X", "S", "E", "A", "R", "C", "H", "R", "E", "S", "U", "L", "T", "S", "_", "A", "P", "I", "_", "L", "A", "T", "E", "S", "T">>
  ELSE Exit

\* lines 1908-1909
_is_client_data_field(type, field) == type = <<"v", "o", "i", "d", "*">> /\ field = <<"C", "l", "i", "e", "n", "t", "D", "a", "t", "a">>

\* lines 1919-1920
_is_anti_cheat_client_handle_type(type) == type = <<"E", "O", "S", "_", "A", "n", "t", "i", "C", "h", "e", "a", "t", "C", "o", "m", "m", "o", "n", "_", "C", "l", "i", "e", "n", "t", "H", "a", "n", "d", "l", "e">>

\* lines 1964-1966
_is_handle_type(type, filed) == StartsWith(type, <<"E", "O", "S", "_", "H">>) \/ type = <<"E", "O", "S", "_", "C", "o", "n", "t", "i", "n", "u", "a", "n", "c", "e", "T", "o", "k", "e", "n">>

\* One emitted line: the loop that wrote it, the struct, the field, the type or
\* the macro written, and the initialize expression or the count field.
Emitted(section, struct_type, field, text, extra) ==
  [section |-> section, struct |-> struct_type, field |-> field, text |-> text, extra |-> extra]

\* the fields the member loop goes through (lines 2039-2043) and the fields
\* the other loops go through (lines 2062-2068, 2099-2105, 2133-2139, 2184-2190)
MemberLoopFields(fields) ==
  SelectSeq(KeySeq(fields), LAMBDA field :
    ~is_deprecated_field(field) /\ ~InList(count_fields, field))

LoopFields(fields) ==
  SelectSeq(KeySeq(fields), LAMBDA field :
    /\ ~is_deprecated_field(field)
    /\ ~InList(count_fields, field)
    /\ ~InList(variant_union_type_fileds, field))

\* lines 2045-2051
initialize_expression(struct_type, field, field_type, type) ==
  IF StartsWith(type, <<"R", "e", "f">>) THEN <<"{", " ", "m", "e", "m", "n", "e", "w", "(">> \o field_type \o <<")", " ", "}">>
  ELSE IF type = <<"i", "n", "t", "3", "2", "_", "t">> /\ field = <<"A", "p", "i", "V", "e", "r", "s", "i", "o", "n">>
    THEN <<"{", " ">> \o __get_api_latest_macro(struct_type) \o <<" ", "}">>
  ELSE <<>>

\* how one pass of the member loop ends (lines 2045-2053)
MemberOutcome(struct_type, field, field_type) ==
  IF remap_type(field_type, field) = KeyError THEN "KeyError"
  ELSE IF /\ ~StartsWith(remap_type(field_type, field), <<"R", "e", "f">>)
          /\ remap_type(field_type, field) = <<"i", "n", "t", "3", "2", "_", "t">> /\ field = <<"A", "p", "i", "V", "e", "r", "s", "i", "o", "n">>
          /\ __get_api_latest_macro(struct_type) = Exit THEN "exit"
  ELSE "ok"

\* how _gen_struct ends: the first pass of the member loop that raises or exits
\* ends the run, the later loops go through fewer fields and the same calls
GenOutcome(struct_type, fields) ==
  IF \E i \in 1..Len(MemberLoopFields(fields)) :
       MemberOutcome(struct_type, MemberLoopFields(fields)[i],
                     Get(fields, MemberLoopFields(fields)[i])) # "ok"
  THEN MemberOutcome(struct_type,
         MemberLoopFields(fields)[CHOOSE i \in 1..Len(MemberLoopFields(fields)) :
           /\ MemberOutcome(struct_type, MemberLoopFields(fields)[i],
                            Get(fields, MemberLoopFields(fields)[i])) # "ok"
           /\ \A j \in 1..(i - 1) :
                MemberOutcome(struct_type, MemberLoopFields(fields)[j],
                              Get(fields, MemberLoopFields(fields)[j])) = "ok"],
         Get(fields, MemberLoopFields(fields)[CHOOSE i \in 1..Len(MemberLoopFields(fields)) :
           /\ MemberOutcome(struct_type, MemberLoopFields(fields)[i],
                            Get(fields, MemberLoopFields(fields)[i])) # "ok"
           /\ \A j \in 1..(i - 1) :
                MemberOutcome(struct_type, MemberLoopFields(fields)[j],
                              Get(fields, MemberLoopFields(fields)[j])) = "ok"]))
  ELSE "ok"

\* lines 2038-2058
MemberLines(struct_type, fields, requirements) ==
  [i \in 1..Len(MemberLoopFields(fields)) |->
     Emitted("member", struct_type, MemberLoopFields(fields)[i],
             remap_type(Get(fields, MemberLoopFields(fields)[i]), MemberLoopFields(fields)[i]),
             initialize_expression(struct_type, MemberLoopFields(fields)[i],
               Get(fields, MemberLoopFields(fields)[i]),
               remap_type(Get(fields, MemberLoopFields(fields)[i]), MemberLoopFields(fields)[i])))]
  \o (IF requirements.to
      THEN <<Emitted("member", struct_type, <<"m", "_", "e", "o", "s", "_", "d", "a", "t", "a">>, struct_type, <<>>)>> ELSE <<>>)

\* lines 2060-2075
SetgetLines(struct_type, fields) ==
  [i \in 1..Len(LoopFields(fields)) |->
     Emitted("setget", struct_type, LoopFields(fields)[i],
             IF remap_type(Get(fields, LoopFields(fields)[i]), LoopFields(fields)[i]) = <<"b", "o", "o", "l">>
             THEN <<"_", "D", "E", "F", "I", "N", "E", "_", "S", "E", "T", "G", "E", "T", "_", "B", "O", "O", "L">> ELSE <<"_", "D", "E", "F", "I", "N", "E", "_", "S", "E", "T", "G", "E", "T">>, <<>>)]

\* lines 2077-2086
MethodLines(struct_type, requirements) ==
  (IF requirements.set_from
   THEN <<Emitted("method", struct_type, <<>>, <<"s", "e", "t", "_", "f", "r", "o", "m", "_", "e", "o", "s">>, <<>>)>> ELSE <<>>)
  \o (IF requirements.from
      THEN <<Emitted("method", struct_type, <<>>, <<"f", "r", "o", "m", "_", "e", "o", "s">>, <<>>)>> ELSE <<>>)
  \o (IF requirements.set_to
      THEN <<Emitted("method", struct_type, <<>>, <<"s", "e", "t", "_", "t", "o", "_", "e", "o", "s">>, <<>>)>> ELSE <<>>)
  \o (IF requirements.to
      THEN <<Emitted("method", struct_type, <<>>, <<"t", "o", "_", "e", "o", "s">>, <<>>)>> ELSE <<>>)

\* lines 2095-2114
BindLines(struct_type, fields) ==
  [i \in 1..Len(LoopFields(fields)) |->
     Emitted("bind", struct_type, LoopFields(fields)[i],
             IF remap_type(Get(fields, LoopFields(fields)[i]), LoopFields(fields)[i]) = <<"b", "o", "o", "l">>
             THEN <<"_", "B", "I", "N", "D", "_", "P", "R", "O", "P", "_", "B", "O", "O", "L">> ELSE <<"_", "B", "I", "N", "D", "_", "P", "R", "O", "P">>, <<>>)]

\* the branch the if/elif chain takes for the field (lines 2142-2169 and
\* 2193-2220), <<>> when it takes none
ChainBranch(fields, field, field_type) ==
  IF _is_anti_cheat_client_handle_type(field_type) THEN <<"A", "N", "T", "I", "C", "H", "E", "A", "T", "_", "C", "L", "I", "E", "N", "T", "_", "H", "A", "N", "D", "L", "E">>
  ELSE IF _is_requested_channel_ptr_field(field_type, field) THEN <<"R", "E", "Q", "U", "E", "S", "T", "E", "D", "_", "C", "H", "A", "N", "N", "E", "L">>
  ELSE IF StartsWith(field_type, <<"U", "n", "i", "o", "n">>) THEN <<"U", "N", "I", "O", "N">>
  ELSE IF _is_handle_type(field_type, field) THEN <<"H", "A", "N", "D", "L", "E", "R">>
  ELSE IF _is_client_data_field(field_type, field) THEN <<"C", "L", "I", "E", "N", "T", "_", "D", "A", "T", "A">>
  ELSE IF _is_internal_struct_arr_field(field_type, field) THEN <<"S", "T", "R", "U", "C", "T", "_", "A", "R", "R">>
  ELSE IF _is_internal_struct_field(field_type, field) THEN <<"S", "T", "R", "U", "C", "T">>
  ELSE <<>>

\* the count field an emitted statement names: the loops call _find_count_field
\* again (lines 2164, 2172, 2215, 2219)
CountArgument(fields, field, branch) ==
  IF branch \in {<<"S", "T", "R", "U", "C", "T", "_", "A", "R", "R">>, <<"A", "R", "R">>} THEN _find_count_field(field, KeySeq(fields)).ret ELSE <<>>

\* one pass of the set_from loop (lines 2141-2177): the chain ends at line 2169
\* and line 2170 starts a second if
SetFromPass(struct_type, fields, field, field_type) ==
  (IF ChainBranch(fields, field, field_type) # <<>>
   THEN <<Emitted("set_from", struct_type, field,
                  <<"_", "F", "R", "O", "M", "_", "E", "O", "S", "_", "F", "I", "E", "L", "D", "_">> \o ChainBranch(fields, field, field_type),
                  CountArgument(fields, field, ChainBranch(fields, field, field_type)))>>
   ELSE <<>>)
  \o (IF _is_arr_field(field_type, field)
      THEN <<Emitted("set_from", struct_type, field, <<"_", "F", "R", "O", "M", "_", "E", "O", "S", "_", "F", "I", "E", "L", "D", "_", "A", "R", "R">>,
                     CountArgument(fields, field, <<"A", "R", "R">>))>>
      ELSE <<Emitted("set_from", struct_type, field, <<"_", "F", "R", "O", "M", "_", "E", "O", "S", "_", "F", "I", "E", "L", "D">>, <<>>)>>)

\* one pass of the set_to loop (lines 2192-2228)
SetToPass(struct_type, fields, field, field_type) ==
  IF ChainBranch(fields, field, field_type) # <<>>
  THEN <<Emitted("set_to", struct_type, field,
                 <<"_", "T", "O", "_", "E", "O", "S", "_", "F", "I", "E", "L", "D", "_">> \o ChainBranch(fields, field, field_type),
                 CountArgument(fields, field, ChainBranch(fields, field, field_type)))>>
  ELSE IF _is_arr_field(field_type, field)
  THEN <<Emitted("set_to", struct_type, field, <<"_", "T", "O", "_", "E", "O", "S", "_", "F", "I", "E", "L", "D", "_", "A", "R", "R">>,
                 CountArgument(fields, field, <<"A", "R", "R">>))>>
  ELSE <<Emitted("set_to", struct_type, field, <<"_", "T", "O", "_", "E", "O", "S", "_", "F", "I", "E", "L", "D">>, <<>>)>>

\* lines 2127-2178
SetFromLines(struct_type, fields, requirements) ==
  IF requirements.set_from
  THEN Join([i \in 1..Len(LoopFields(fields)) |->
               SetFromPass(struct_type, fields, LoopFields(fields)[i],
                           Get(fields, LoopFields(fields)[i]))])
  ELSE <<>>

\* lines 2179-2229
SetToLines(struct_type, fields, requirements) ==
  IF requirements.set_to
  THEN Join([i \in 1..Len(LoopFields(fields)) |->
               SetToPass(struct_type, fields, LoopFields(fields)[i],
                         Get(fields, LoopFields(fields)[i]))])
  ELSE <<>>

\* the reports of the calls of _find_count_field the emitted statements made:
\* every call that returns None prints its report (lines 1999-2000)
EmissionReports(fields, emitted) ==
  [i \in 1..Len(SelectSeq(emitted, LAMBDA e : e.extra = None)) |->
     [field |-> SelectSeq(emitted, LAMBDA e : e.extra = None)[i].field,
      similars_fileds |->
        _find_count_field(SelectSeq(emitted, LAMBDA e : e.extra = None)[i].field,
                          KeySeq(fields)).similars_fileds]]

\* the loop of lines 2019-2034 is over: _gen_struct emits the class (lines
\* 2036-2231) and gen_structs takes the next struct, or the run ends at the
\* exit() of __get_api_latest_macro or at the KeyError of remap_type
GenStructFinish ==
  /\ pc = "gen_struct"
  /\ gen_index > Len(Get(structs, gen_struct_type))
  /\ \E fields \in {Get(structs, gen_struct_type)} :
     \E requirements \in {Get(struct2additional_method_requirements, gen_struct_type)} :
       IF GenOutcome(gen_struct_type, fields) = "ok"
       THEN /\ struct_lines' = struct_lines
                                 \o MemberLines(gen_struct_type, fields, requirements)
                                 \o SetgetLines(gen_struct_type, fields)
                                 \o MethodLines(gen_struct_type, requirements)
            /\ r_structs_cpp' = r_structs_cpp
                                  \o BindLines(gen_struct_type, fields)
                                  \o SetFromLines(gen_struct_type, fields, requirements)
                                  \o SetToLines(gen_struct_type, fields, requirements)
            /\ count_reports' = count_reports
                                  \o EmissionReports(fields,
                                        SetFromLines(gen_struct_type, fields, requirements)
                                        \o SetToLines(gen_struct_type, fields, requirements))
            /\ pc' = "gen_structs"
            /\ gs_index' = gs_index + 1
       ELSE /\ pc' = IF GenOutcome(gen_struct_type, fields) = "exit"
                     THEN "gen_exit" ELSE "gen_KeyError"
            /\ UNCHANGED <<gs_index, count_reports, struct_lines, r_structs_cpp>>
  /\ UNCHANGED <<gen_struct_type, gen_index, count_fields, variant_union_type_fileds>>
  /\ UNCHANGED handle_vars
  /\ UNCHANGED parse_vars
  /\ UNCHANGED scan_vars

\* lines 1235-1240
GenStructsEnd ==
  /\ pc = "gen_structs"
  /\ gs_index > Len(structs)
  /\ pc' = "gen_done"
  /\ UNCHANGED gen_vars
  /\ UNCHANGED <<struct_lines, r_structs_cpp>>
  /\ UNCHANGED handle_vars
  /\ UNCHANGED parse_vars
  /\ UNCHANGED scan_vars

\* ------------------------------------------------- the generated structs

\* The most fields of the generated struct.
MaxStructFields == 3

\* The fields a generated struct is made of: arrays, count-like fields, a
\* string, a deprecated field and a union with its type field.
FieldCatalogue ==
  <<Field(<<"R", "e", "c", "o", "r", "d", "s">>, <<"c", "o", "n", "s", "t", " ", "E", "O", "S", "_", "P", "r", "e", "s", "e", "n", "c", "e", "_", "D", "a", "t", "a", "R", "e", "c", "o", "r", "d", "*">>),
    Field(<<"F", "i", "l", "e", "C", "o", "u", "n", "t">>, <<"u", "i", "n", "t", "3", "2", "_", "t">>),
    Field(<<"R", "e", "c", "o", "r", "d", "C", "o", "u", "n", "t">>, <<"u", "i", "n", "t", "3", "2", "_", "t">>),
    Field(<<"R", "e", "c", "o", "r", "d", "s", "S", "i", "z", "e">>, <<"u", "i", "n", "t", "3", "2", "_", "t">>),
    Field(<<"I", "t", "e", "m", "C", "o", "u", "n", "t">>, <<"c", "o", "n", "s", "t", " ", "u", "i", "n", "t", "3", "2", "_", "t", "*">>),
    Field(<<"S", "t", "a", "t", "I", "n", "f", "o">>, <<"c", "o", "n", "s", "t", " ", "u", "i", "n", "t", "3", "2", "_", "t", "*">>),
    Field(<<"S", "t", "a", "t", "s">>, <<"c", "o", "n", "s", "t", " ", "u", "i", "n", "t", "3", "2", "_", "t", "*">>),
    Field(<<"S", "t", "a", "t", "C", "o", "u", "n", "t">>, <<"u", "i", "n", "t", "3", "2", "_", "t">>),
    Field(<<"S", "t", "a", "t", "S", "i", "z", "e">>, <<"u", "i", "n", "t", "3", "2", "_", "t">>),
    Field(<<"N", "a", "m", "e">>, <<"c", "o", "n", "s", "t", " ", "c", "h", "a", "r", "*">>),
    Field(<<"R", "e", "s", "e", "r", "v", "e", "d">>, <<"v", "o", "i", "d", "*">>),
    Field(<<"V", "a", "l", "u", "e">>, <<"U", "n", "i", "o", "n", "{", "i", "n", "t", "6", "4", "_", "t", " ", ":", " ", "A", "s", "I", "n", "t", "6", "4", "}">>),
    Field(<<"V", "a", "l", "u", "e", "T", "y", "p", "e">>, <<"E", "O", "S", "_", "E", "A", "t", "t", "r", "i", "b", "u", "t", "e", "T", "y", "p", "e">>)>>

Reverse(s) == [i \in 1..Len(s) |-> s[Len(s) + 1 - i]]

\* the catalogue's fields numbered in sub, in the catalogue's order
Chosen(sub) ==
  LET numbered == [i \in 1..Len(FieldCatalogue) |-> [i |-> i, f |-> FieldCatalogue[i]]]
      sel == SelectSeq(numbered, LAMBDA x : x.i \in sub)
  IN  [i \in 1..Len(sel) |-> sel[i].f]

\* The field lists of the generated struct: up to MaxStructFields fields of the
\* catalogue, in the catalogue's order or in the reverse order.
FieldLists ==
  {Chosen(sub) : sub \in {x \in SUBSET (1..Len(FieldCatalogue)) :
                            Cardinality(x) <= MaxStructFields}}
  \cup {Reverse(Chosen(sub)) : sub \in {x \in SUBSET (1..Len(FieldCatalogue)) :
                                          Cardinality(x) <= MaxStructFields}}

\* The scanned declarations: the handle, struct S with the chosen fields, the
\* struct of the records, and the method that uses S in the role chosen.
GenDecls(fields, roles) ==
  <<Handle(<<"a", "u", "t", "h">>, <<"E", "O", "S", "_", "H", "A", "u", "t", "h">>),
    Struct(<<"a", "u", "t", "h">>, <<"S">>, fields),
    Struct(<<"a", "u", "t", "h">>, <<"E", "O", "S", "_", "P", "r", "e", "s", "e", "n", "c", "e", "_", "D", "a", "t", "a", "R", "e", "c", "o", "r", "d">>,
           <<Field(<<"A", "p", "i", "V", "e", "r", "s", "i", "o", "n">>, <<"i", "n", "t", "3", "2", "_", "t">>), Field(<<"K", "e", "y">>, <<"c", "o", "n", "s", "t", " ", "c", "h", "a", "r", "*">>),
             Field(<<"V", "a", "l", "u", "e">>, <<"c", "o", "n", "s", "t", " ", "c", "h", "a", "r", "*">>)>>)>>
  \o Uses(<<"S">>, roles, <<"M">>)

InitGen ==
  \E fields \in FieldLists, roles \in {{"in"}, {"out"}} :
    Start(ScanResult(<<<<"c", "o", "m", "m", "o", "n">>, <<"a", "u", "t", "h">>, <<"u", "i">>>>, GenDecls(fields, roles)))

NextGen ==
  \/ Next
  \/ GenStructsStart
  \/ GenStructsStep
  \/ GenStructField
  \/ GenStructFinish
  \/ GenStructsEnd

\* parse_all_file on the scanned declarations, then gen_structs up to the
\* member lists of each struct.
SpecGen == InitGen /\ [][NextGen]_vars

\* ------------------------------------------- claims about the count fields

\* The struct whose fields are drawn from the catalogue.
GeneratedStruct == <<"S">>

\* _gen_struct has gone through the fields of the struct: count_fields holds
\* what _find_count_field returned for its array fields.
StructGenerated ==
  /\ gen_struct_type = GeneratedStruct
  /\ pc \in {"gen_structs", "gen_done"}

GeneratedFields == Get(structs, GeneratedStruct)

\* The struct is made of exactly the two fields a and b, in either order.
MadeOf(a, b) == GeneratedFields = <<a, b>> \/ GeneratedFields = <<b, a>>

\* The fields for which _gen_struct looks for a count field (lines 2020-2027).
IsArrayField(name) ==
  /\ Has(GeneratedFields, name)
  /\ ~is_deprecated_field(name)
  /\ \/ _is_arr_field(Get(GeneratedFields, name), name)
     \/ _is_internal_struct_arr_field(Get(GeneratedFields, name), name)

\* _find_count_field printed its report for the array field.
Reported(name) == \E i \in 1..Len(count_reports) : count_reports[i].field = name

\* C18 as claimed: in a struct with the fields FileCount: uint32_t and
\* Records: const X*, _find_count_field pairs Records with FileCount.
C18_AsClaimed ==
  (StructGenerated /\ MadeOf(Field(<<"F", "i", "l", "e", "C", "o", "u", "n", "t">>, <<"u", "i", "n", "t", "3", "2", "_", "t">>),
                             Field(<<"R", "e", "c", "o", "r", "d", "s">>, <<"c", "o", "n", "s", "t", " ", "E", "O", "S", "_", "P", "r", "e", "s", "e", "n", "c", "e", "_", "D", "a", "t", "a", "R", "e", "c", "o", "r", "d", "*">>)))
    => count_fields = <<<<"F", "i", "l", "e", "C", "o", "u", "n", "t">>>>

\* C18: in a struct with the fields RecordCount: uint32_t and Records: const X*,
\* _find_count_field pairs Records with RecordCount, the first tokens being equal
\* once the plural ending is removed, and reports nothing; in a struct with the
\* fields FileCount: uint32_t and Records: const X* no token matches, the
\* function reports Records with no candidate and returns None.
C18_PairsByTokenMatch ==
  StructGenerated =>
    /\ MadeOf(Field(<<"R", "e", "c", "o", "r", "d", "C", "o", "u", "n", "t">>, <<"u", "i", "n", "t", "3", "2", "_", "t">>),
              Field(<<"R", "e", "c", "o", "r", "d", "s">>, <<"c", "o", "n", "s", "t", " ", "E", "O", "S", "_", "P", "r", "e", "s", "e", "n", "c", "e", "_", "D", "a", "t", "a", "R", "e", "c", "o", "r", "d", "*">>))
         => /\ count_fields = <<<<"R", "e", "c", "o", "r", "d", "C", "o", "u", "n", "t">>>>
            /\ count_reports = <<>>
    /\ MadeOf(Field(<<"F", "i", "l", "e", "C", "o", "u", "n", "t">>, <<"u", "i", "n", "t", "3", "2", "_", "t">>),
              Field(<<"R", "e", "c", "o", "r", "d", "s">>, <<"c", "o", "n", "s", "t", " ", "E", "O", "S", "_", "P", "r", "e", "s", "e", "n", "c", "e", "_", "D", "a", "t", "a", "R", "e", "c", "o", "r", "d", "*">>))
         => /\ count_fields = <<None>>
            /\ count_reports # <<>>
            /\ \A i \in 1..Len(count_reports) :
                 count_reports[i] = [field |-> <<"R", "e", "c", "o", "r", "d", "s">>, similars_fileds |-> <<>>]

\* The struct with RecordCount and Records has been generated and Records is
\* paired.
C18_Witness ==
  /\ StructGenerated
  /\ GeneratedFields = <<Field(<<"R", "e", "c", "o", "r", "d", "C", "o", "u", "n", "t">>, <<"u", "i", "n", "t", "3", "2", "_", "t">>),
                         Field(<<"R", "e", "c", "o", "r", "d", "s">>, <<"c", "o", "n", "s", "t", " ", "E", "O", "S", "_", "P", "r", "e", "s", "e", "n", "c", "e", "_", "D", "a", "t", "a", "R", "e", "c", "o", "r", "d", "*">>)>>
  /\ count_fields = <<<<"R", "e", "c", "o", "r", "d", "C", "o", "u", "n", "t">>>>

\* Two candidates are equally plausible for the array field: both count-like,
\* both sharing leading tokens with it, the same number of them, and both a
\* full match or both a partial one.
EquallyPlausible(f1, f2, name) ==
  /\ f1 # f2 /\ f1 # name /\ f2 # name
  /\ Has(GeneratedFields, f1) /\ Has(GeneratedFields, f2)
  /\ IsCountLike(f1) /\ IsCountLike(f2)
  /\ Similar(f1, name) > 0
  /\ Similar(f1, name) = Similar(f2, name)
  /\ IsFullMatch(f1, name) = IsFullMatch(f2, name)

\* C19: when two count-like fields are equally plausible for an array field,
\* _find_count_field returns no field for it and reports the pairing; it picks
\* neither of the two.
C19_AmbiguousIsReported ==
  StructGenerated =>
    \A name \in Keys(GeneratedFields), f1 \in Keys(GeneratedFields),
       f2 \in Keys(GeneratedFields) :
      (IsArrayField(name) /\ EquallyPlausible(f1, f2, name)) =>
        /\ _find_count_field(name, KeySeq(GeneratedFields)).ret = None
        /\ Reported(name)

\* C20: the count field paired with an array field of a struct is another field
\* than the array field, and is not an array field of the struct itself.
C20_CountFieldIsNotData ==
  StructGenerated =>
    \A name \in Keys(GeneratedFields) :
      (IsArrayField(name) /\ _find_count_field(name, KeySeq(GeneratedFields)).ret # None) =>
        /\ _find_count_field(name, KeySeq(GeneratedFields)).ret # name
        /\ ~IsArrayField(_find_count_field(name, KeySeq(GeneratedFields)).ret)
        /\ \E i \in 1..Len(count_fields) :
             count_fields[i] = _find_count_field(name, KeySeq(GeneratedFields)).ret

\* C21: two different array fields of a struct are never paired with the same
\* count field.
C21_CountFieldPairedOnce ==
  StructGenerated =>
    \A a1 \in Keys(GeneratedFields), a2 \in Keys(GeneratedFields) :
      (/\ a1 # a2
       /\ IsArrayField(a1) /\ IsArrayField(a2)
       /\ _find_count_field(a1, KeySeq(GeneratedFields)).ret # None
       /\ \E i \in 1..Len(count_fields) :
            count_fields[i] = _find_count_field(a1, KeySeq(GeneratedFields)).ret)
      => _find_count_field(a1, KeySeq(GeneratedFields)).ret
           # _find_count_field(a2, KeySeq(GeneratedFields)).ret

\* ------------------------------------------- claims about the expanded list

\* s has the version stamp field
HasApiVersion(s) ==
  /\ Has(Get(structs, s), <<"A", "p", "i", "V", "e", "r", "s", "i", "o", "n">>)
  /\ Get(Get(structs, s), <<"A", "p", "i", "V", "e", "r", "s", "i", "o", "n">>) = <<"i", "n", "t", "3", "2", "_", "t">>

\* s is used as an input of a method and as nothing else
PureInput(s) ==
  /\ __is_input_struct(s)
  /\ ~__is_output_struct(s)
  /\ ~__is_arg_out_struct(s)
  /\ ~IsMemberOfAnother(s)
  /\ ~IsArrayElementOfAnother(s)

UsedByNothing(s) ==
  /\ ~ReturnedByAMethod(s)
  /\ ~ArgumentOfAMethod(s)
  /\ ~ArgumentOfACallback(s)

\* C28: a struct that no method or callback uses is not in the expanded list,
\* and no struct is in the expanded list more than once.
C28_RoleLessNotExpanded ==
  pc = "done" =>
    /\ \A s \in Keys(structs) : UsedByNothing(s) => ~InList(expended_as_args_structs, s)
    /\ \A i \in 1..Len(expended_as_args_structs), j \in 1..Len(expended_as_args_structs) :
         expended_as_args_structs[i] = expended_as_args_structs[j] => i = j

\* ------------------------------------------------ claims about the phases

Scanning == pc \in {"scan", "scan_IndexError"}

Consolidating ==
  pc \in {"consolidate", "consolidate_KeyError", "move_handles", "move_structs",
          "move_enums", "move_enums_KeyError", "leftovers"}

\* the derivation has begun: a struct has its flags or is in the expanded list
DerivationStarted ==
  \/ struct2additional_method_requirements # <<>>
  \/ expended_as_args_structs # <<>>

\* the tables the scan and the consolidation fill
ConsolidatedTables ==
  <<file_lower2infos, interfaces, structs, handles, release_methods,
    unhandled_methods, unhandled_callbacks, unhandled_enums, api_latest_macros>>

\* every line is scanned and every per-file table is moved to the global tables
ConsolidationComplete ==
  /\ line_index >= Len(lines)
  /\ PerFileGone("handles") /\ PerFileGone("structs") /\ PerFileGone("enums")
  /\ PerFileGone("methods") /\ PerFileGone("callbacks")

\* a step taken from the derivation on leaves the scanned and the consolidated
\* tables alone and stays in the derivation
DerivationStep ==
  pc \in {"requirements", "requirements_internal", "expand", "done"}
    => /\ UNCHANGED ConsolidatedTables
       /\ UNCHANGED scan_vars
       /\ pc' \in {"requirements_internal", "expand", "done"}

\* C25: the phases do not interleave. While the header is scanned or the tables
\* are consolidated no struct has flags and none is expanded; once the
\* derivation runs every line is scanned and every per-file table is moved; and
\* no step taken from the derivation on changes a table of the scan or of the
\* consolidation.
C25_PhasesInOrder ==
  /\ []((Scanning \/ Consolidating) => ~DerivationStarted)
  /\ [](pc \in {"requirements", "requirements_internal", "expand", "done"}
          => ConsolidationComplete)
  /\ [][DerivationStep]_vars

\* A run that scanned a header with a struct, a handle and a method, moved them
\* and derived the flags of the struct.
C25_Witness ==
  /\ pc = "done"
  /\ lines # <<>> /\ line_index >= Len(lines)
  /\ structs # <<>> /\ handles # <<>>
  /\ struct2additional_method_requirements # <<>>

\* ------------------------------------------- claims about _decay_eos_type

\* C30: decaying a type twice gives what decaying it once gives, for the type
\* of every field of every declared struct.
C30_DecayIdempotent ==
  \A s \in Keys(structs) :
    \A i \in 1..Len(Get(structs, s)) :
      _decay_eos_type(_decay_eos_type(Get(structs, s)[i].v))
        = _decay_eos_type(Get(structs, s)[i].v)

\* ------------------------------------- claims about the union discriminants

\* the field is a union rendered as a Variant and the struct has no field
\* named after it with the ending Type
LacksDiscriminant(name) ==
  /\ Has(GeneratedFields, name)
  /\ ~is_deprecated_field(name)
  /\ _is_variant_union_type(Get(GeneratedFields, name), name)
  /\ TypeSiblings(name, KeySeq(GeneratedFields)) = <<>>

\* C23: when a union field of the generated struct has no sibling field
\* named field + "Type", the run reports the field, and goes on to emit the
\* struct.
C23_MissingDiscriminantReported ==
  StructGenerated =>
    \A name \in Keys(GeneratedFields) :
      LacksDiscriminant(name)
        => /\ Reported(name)
           /\ \E i \in 1..Len(struct_lines) : struct_lines[i].struct = GeneratedStruct

\* the lines and statements emitted for the field of the generated struct
EmittedFor(name) ==
  SelectSeq(struct_lines \o r_structs_cpp,
            LAMBDA e : e.struct = GeneratedStruct /\ e.field = name)

\* C24: a field taken as the discriminant of a union field of the generated
\* struct appears in no emitted enumeration: it is no member, has no setter or
\* getter, no property binding and no conversion statement.
C24_DiscriminantNotEmitted ==
  StructGenerated =>
    \A i \in 1..Len(variant_union_type_fileds) :
      EmittedFor(variant_union_type_fileds[i]) = <<>>

\* ------------------------------------------ claims about the version macros

MaxMacros == 3

\* The structs whose version macro is looked up.
StampStructs == {<<"E", "O", "S", "_", "A", "u", "t", "h", "_", "L", "o", "g", "i", "n", "O", "p", "t", "i", "o", "n", "s">>, <<"E", "O", "S", "_", "A", "u", "t", "h", "_", "T", "o", "k", "e", "n">>, <<"E", "O", "S", "_", "U", "s", "e", "r", "I", "n", "f", "o">>}

\* The macros a header can define for them.
MacroCatalogue ==
  <<<<"E", "O", "S", "_", "A", "U", "T", "H", "_", "L", "O", "G", "I", "N", "O", "P", "T", "I", "O", "N", "S", "_", "A", "P", "I", "_", "L", "A", "T", "E", "S", "T">>, <<"E", "O", "S", "_", "A", "U", "T", "H", "_", "L", "O", "G", "I", "N", "_", "A", "P", "I", "_", "L", "A", "T", "E", "S", "T">>,
    <<"E", "O", "S", "_", "A", "U", "T", "H", "_", "L", "O", "G", "I", "N", "O", "P", "T", "I", "O", "N", "S", "O", "P", "T", "I", "O", "N", "S", "_", "A", "P", "I", "_", "L", "A", "T", "E", "S", "T">>, <<"E", "O", "S", "_", "A", "U", "T", "H", "_", "L", "O", "G", "I", "N", "O", "P", "T", "I", "O", "N", "S", "_", "O", "P", "T", "I", "O", "N", "S", "_", "A", "P", "I", "_", "L", "A", "T", "E", "S", "T">>,
    <<"E", "O", "S", "_", "A", "U", "T", "H", "_", "T", "O", "K", "E", "N", "_", "A", "P", "I", "_", "L", "A", "T", "E", "S", "T">>, <<"E", "O", "S", "_", "A", "U", "T", "H", "_", "T", "O", "K", "E", "N", "_", "O", "P", "T", "I", "O", "N", "S", "_", "A", "P", "I", "_", "L", "A", "T", "E", "S", "T">>,
    <<"E", "O", "S", "_", "U", "S", "E", "R", "I", "N", "F", "O", "_", "C", "O", "P", "Y", "U", "S", "E", "R", "I", "N", "F", "O", "_", "A", "P", "I", "_", "L", "A", "T", "E", "S", "T">>, <<"E", "O", "S", "_", "P", "L", "A", "T", "F", "O", "R", "M", "_", "O", "P", "T", "I", "O", "N", "S", "_", "A", "P", "I", "_", "L", "A", "T", "E", "S", "T">>>>

\* The registries: up to MaxMacros macros of the catalogue, in the catalogue's
\* order or in the reverse order.
Registries ==
  {[i \in 1..Len(SelectSeq(MacroCatalogue, LAMBDA m : m \in sub)) |->
      SelectSeq(MacroCatalogue, LAMBDA m : m \in sub)[i]] :
     sub \in {x \in SUBSET {MacroCatalogue[i] : i \in 1..Len(MacroCatalogue)} :
                Cardinality(x) <= MaxMacros}}
  \cup {Reverse(SelectSeq(MacroCatalogue, LAMBDA m : m \in sub)) :
          sub \in {x \in SUBSET {MacroCatalogue[i] : i \in 1..Len(MacroCatalogue)} :
                     Cardinality(x) <= MaxMacros}}

\* The scanned declarations: the handle, the struct with the version stamp and
\* the method that takes it as an out-argument.
StampDecls(name) ==
  <<Handle(<<"a", "u", "t", "h">>, <<"E", "O", "S", "_", "H", "A", "u", "t", "h">>),
    Struct(<<"a", "u", "t", "h">>, name, <<Field(<<"A", "p", "i", "V", "e", "r", "s", "i", "o", "n">>, <<"i", "n", "t", "3", "2", "_", "t">>), Field(<<"N", "a", "m", "e">>, <<"c", "o", "n", "s", "t", " ", "c", "h", "a", "r", "*">>)>>)>>
  \o Uses(name, {"out"}, <<"M">>)

InitStamp ==
  \E name \in StampStructs, macros \in Registries :
    StartWith(ScanResult(<<<<"c", "o", "m", "m", "o", "n">>, <<"a", "u", "t", "h">>, <<"u", "i">>>>, StampDecls(name)), macros)

\* parse_all_file on the scanned declarations and the registered macros, then
\* gen_structs.
SpecStamp == InitStamp /\ [][NextGen]_vars

\* the initialize expressions of the ApiVersion members emitted so far
EmittedStamps ==
  SelectSeq(struct_lines, LAMBDA e : e.section = "member" /\ e.field = <<"A", "p", "i", "V", "e", "r", "s", "i", "o", "n">>)

\* the names the lookup tries for the struct, in its order
MacroCandidates(struct_type) ==
  <<Upper(struct_type) \o <<"_", "A", "P", "I", "_", "L", "A", "T", "E", "S", "T">>,
    Upper(RemoveSuffix(struct_type, <<"O", "p", "t", "i", "o", "n", "s">>)) \o <<"_", "A", "P", "I", "_", "L", "A", "T", "E", "S", "T">>,
    Upper(struct_type) \o <<"O", "P", "T", "I", "O", "N", "S", "_", "A", "P", "I", "_", "L", "A", "T", "E", "S", "T">>,
    Upper(struct_type) \o <<"_", "O", "P", "T", "I", "O", "N", "S", "_", "A", "P", "I", "_", "L", "A", "T", "E", "S", "T">>>>

\* C22: the macro written into the ApiVersion member of a struct is in the
\* registry and is the first registered one of <STRUCT>_API_LATEST, <STRUCT
\* without the Options suffix>_API_LATEST, <STRUCT>OPTIONS_API_LATEST and
\* <STRUCT>_OPTIONS_API_LATEST; when none of the registered macros matches the
\* struct no member is written and the run halts.
C22_StampIsRegistered ==
  /\ \A i \in 1..Len(EmittedStamps) :
       \E c \in 1..4 :
         /\ EmittedStamps[i].extra = <<"{", " ">> \o MacroCandidates(EmittedStamps[i].struct)[c] \o <<" ", "}">>
         /\ InList(api_latest_macros, MacroCandidates(EmittedStamps[i].struct)[c])
         /\ \A b \in 1..(c - 1) :
              ~InList(api_latest_macros, MacroCandidates(EmittedStamps[i].struct)[b])
  /\ (pc \in {"gen_structs", "gen_done"} /\ gen_struct_type \in StampStructs
        /\ \A c \in 1..4 : ~InList(api_latest_macros, MacroCandidates(gen_struct_type)[c]))
       => FALSE

\* ------------------------------------------- claims about nested structs

\* A chain of three structs: EOS_Outer has a member of type EOS_Middle, which
\* has a member of type EOS_Inner.
ChainStructs ==
  <<[k |-> <<"E", "O", "S", "_", "O", "u", "t", "e", "r">>, v |-> <<Field(<<"A", "p", "i", "V", "e", "r", "s", "i", "o", "n">>, <<"i", "n", "t", "3", "2", "_", "t">>), Field(<<"M", "i", "d", "d", "l", "e">>, <<"E", "O", "S", "_", "M", "i", "d", "d", "l", "e">>)>>],
    [k |-> <<"E", "O", "S", "_", "M", "i", "d", "d", "l", "e">>, v |-> <<Field(<<"I", "n", "n", "e", "r">>, <<"c", "o", "n", "s", "t", " ", "E", "O", "S", "_", "I", "n", "n", "e", "r", "*">>), Field(<<"N", "a", "m", "e">>, <<"c", "o", "n", "s", "t", " ", "c", "h", "a", "r", "*">>)>>],
    [k |-> <<"E", "O", "S", "_", "I", "n", "n", "e", "r">>, v |-> <<Field(<<"N", "a", "m", "e">>, <<"c", "o", "n", "s", "t", " ", "c", "h", "a", "r", "*">>)>>]>>

\* the orders in which the header can declare the three structs
ChainOrders ==
  {p \in [1..3 -> 1..3] : \A i \in 1..3, j \in 1..3 : p[i] = p[j] => i = j}

\* The scanned declarations: the handle, the three structs in the order p, and
\* the methods and callback that give EOS_Outer and EOS_Middle their roles.
ChainDecls(p, rolesOuter, rolesMiddle) ==
  <<Handle(<<"a", "u", "t", "h">>, <<"E", "O", "S", "_", "H", "A", "u", "t", "h">>)>>
  \o [i \in 1..3 |-> Struct(<<"a", "u", "t", "h">>, ChainStructs[p[i]].k, ChainStructs[p[i]].v)]
  \o Uses(<<"E", "O", "S", "_", "O", "u", "t", "e", "r">>, rolesOuter, <<"M">>)
  \o Uses(<<"E", "O", "S", "_", "M", "i", "d", "d", "l", "e">>, rolesMiddle, <<"N">>)

InitChain ==
  \E p \in ChainOrders, rolesOuter \in SUBSET Roles, rolesMiddle \in {{}, {"in"}, {"out"}} :
    Start(ScanResult(<<<<"c", "o", "m", "m", "o", "n">>, <<"a", "u", "t", "h">>, <<"u", "i">>>>, ChainDecls(p, rolesOuter, rolesMiddle)))

\* parse_all_file on the chain of structs.
SpecChain == InitChain /\ [][Next]_vars

\* every flag of struct a is a flag of struct b
FlagsWithin(a, b) == \A k \in FlagNames : Flags(a)[k] => Flags(b)[k]

\* C27: after the derivation the flags of the outer struct of a chain are
\* flags of the struct nested in it and of the struct nested in that one,
\* whatever the order of the three structs in the struct table.
C27_FlagsReachInnermost ==
  (pc = "done" /\ Has(structs, <<"E", "O", "S", "_", "O", "u", "t", "e", "r">>) /\ Has(structs, <<"E", "O", "S", "_", "I", "n", "n", "e", "r">>))
    => /\ FlagsWithin(<<"E", "O", "S", "_", "O", "u", "t", "e", "r">>, <<"E", "O", "S", "_", "M", "i", "d", "d", "l", "e">>)
       /\ FlagsWithin(<<"E", "O", "S", "_", "M", "i", "d", "d", "l", "e">>, <<"E", "O", "S", "_", "I", "n", "n", "e", "r">>)
       /\ FlagsWithin(<<"E", "O", "S", "_", "O", "u", "t", "e", "r">>, <<"E", "O", "S", "_", "I", "n", "n", "e", "r">>)

\* ------------------------ gen_handles, _gen_handle, _gen_callback (264-518)

\* lines 984-985
_is_need_skip_callback(callback_type) ==
  callback_type = <<"E", "O", "S", "_", "I", "n", "t", "e", "g", "r", "a", "t", "e", "d", "P", "l", "a", "t", "f", "o", "r", "m", "_", "O", "n", "U", "s", "e", "r", "P", "r", "e", "L", "o", "g", "o", "u", "t", "C", "a", "l", "l", "b", "a", "c", "k">>

\* the keys of __get_callback_ret_default_val's table (lines 384-391)
CallbackRetDefaults ==
  {<<"E", "O", "S", "_", "E", "I", "n", "t", "e", "g", "r", "a", "t", "e", "d", "P", "l", "a", "t", "f", "o", "r", "m", "P", "r", "e", "L", "o", "g", "o", "u", "t", "A", "c", "t", "i", "o", "n">>, <<"E", "O", "S", "_", "P", "l", "a", "y", "e", "r", "D", "a", "t", "a", "S", "t", "o", "r", "a", "g", "e", "_", "E", "R", "e", "a", "d", "R", "e", "s", "u", "l", "t">>,
   <<"E", "O", "S", "_", "P", "l", "a", "y", "e", "r", "D", "a", "t", "a", "S", "t", "o", "r", "a", "g", "e", "_", "E", "W", "r", "i", "t", "e", "R", "e", "s", "u", "l", "t">>, <<"E", "O", "S", "_", "T", "i", "t", "l", "e", "S", "t", "o", "r", "a", "g", "e", "_", "E", "R", "e", "a", "d", "R", "e", "s", "u", "l", "t">>}

\* the callbacks of every handle, in the order the two loops of lines 413-414
\* go through them
HandleCallbacks == Join([h \in 1..Len(handles) |-> handles[h].v.callbacks])

\* the callbacks among them that line 415 assigns to infos
AssignedCallbacks == SelectSeq(HandleCallbacks, LAMBDA c : c.k = _decay_eos_type(c.k))

\* callback_type after the loops of lines 413-416: the loop variable has the
\* name of the parameter, so the parameter keeps the last callback gone through
LoopedCallbackType(callback_type) ==
  IF HandleCallbacks = <<>> THEN callback_type ELSE HandleCallbacks[Len(HandleCallbacks)].k

\* the array fields of lines 440-449, their count fields and the reports of
\* the calls of _find_count_field that return None
CallbackArrayFields(fields) ==
  SelectSeq(KeySeq(fields), LAMBDA f :
    /\ ~is_deprecated_field(f)
    /\ \/ _is_arr_field(Get(fields, f), f)
       \/ _is_internal_struct_arr_field(Get(fields, f), f))

CallbackCountFields(fields) ==
  [i \in 1..Len(CallbackArrayFields(fields)) |->
     _find_count_field(CallbackArrayFields(fields)[i], KeySeq(fields)).ret]

CallbackCountReports(fields) ==
  [i \in 1..Len(SelectSeq(CallbackArrayFields(fields), LAMBDA f :
                  _find_count_field(f, KeySeq(fields)).ret = None)) |->
     [field |-> SelectSeq(CallbackArrayFields(fields), LAMBDA f :
                  _find_count_field(f, KeySeq(fields)).ret = None)[i],
      similars_fileds |->
        _find_count_field(SelectSeq(CallbackArrayFields(fields), LAMBDA f :
                            _find_count_field(f, KeySeq(fields)).ret = None)[i],
                          KeySeq(fields)).similars_fileds]]

\* the lines 451-455
CallbackVariantFields(fields) ==
  Join([i \in 1..Len(fields) |->
          IF ~is_deprecated_field(fields[i].k) /\ _is_variant_union_type(fields[i].v, fields[i].k)
          THEN TypeSiblings(fields[i].k, KeySeq(fields)) ELSE <<>>])

\* the fields the loop of lines 464-507 renders as arguments
ExpandedArguments(fields) ==
  SelectSeq(KeySeq(fields), LAMBDA f :
    /\ ~(Get(fields, f) = <<"i", "n", "t", "3", "2", "_", "t">> /\ f = <<"A", "p", "i", "V", "e", "r", "s", "i", "o", "n">>)
    /\ ~is_deprecated_field(f)
    /\ ~InList(CallbackCountFields(fields), f)
    /\ ~InList(CallbackVariantFields(fields), f))

\* the struct whose fields the expanded branch reads (lines 424, 436)
CallbackStruct(infos) == _decay_eos_type(_decay_eos_type(infos.args[1].type))

\* the call reaches the loop of lines 440-455
ReadsCallbackStruct(infos) ==
  /\ Len(infos.args) = 1
  /\ _is_expended_struct(_decay_eos_type(infos.args[1].type))
  /\ Has(structs, CallbackStruct(infos))

\* how the call ends (lines 411-518): "ok", or the exit() of line 419, the
\* KeyError of a table lookup, the TypeError of remap_type called with one
\* argument (line 479)
CallbackOutcome(infos) ==
  IF Len(infos.args) # 1 THEN "exit"
  ELSE IF ~_is_expended_struct(_decay_eos_type(infos.args[1].type))
    THEN IF remap_type(_decay_eos_type(infos.args[1].type), infos.args[1].name) = KeyError
           THEN "KeyError"
         ELSE IF infos.return # <<>> /\ infos.return \notin CallbackRetDefaults THEN "KeyError"
         ELSE "ok"
  ELSE IF ~Has(structs, CallbackStruct(infos)) THEN "KeyError"
  ELSE IF infos.return # <<>> /\ infos.return \notin CallbackRetDefaults THEN "KeyError"
  ELSE IF ExpandedArguments(Get(structs, CallbackStruct(infos))) # <<>>
    THEN "TypeError"
  ELSE "ok"

\* what the call renders: the signal and the macro call of lines 426-434 and
\* 457-516, for the call _gen_callback(requested, ...)
RenderedCallback(requested, callback_type, infos) ==
  [requested |-> requested,
   signal_name |-> to_snake_case(callback_type),
   arg_type |-> infos.args[1].type,
   arg_name |-> infos.args[1].name,
   return_type |-> infos.return,
   godot_type |-> IF _is_expended_struct(_decay_eos_type(infos.args[1].type)) THEN <<>>
                  ELSE remap_type(_decay_eos_type(infos.args[1].type), infos.args[1].name),
   text |-> <<"_", "E", "O", "S", "_", "M", "E", "T", "H", "O", "D", "_", "C", "A", "L", "L", "B", "A", "C", "K">>
            \o (IF _is_expended_struct(_decay_eos_type(infos.args[1].type))
                THEN <<"_", "E", "X", "P", "A", "N", "D", "E", "D">> ELSE <<>>)
            \o (IF infos.return # <<>> THEN <<"_", "R", "E", "T">> ELSE <<>>)]

\* gen_handles starts (lines 264-274), after gen_structs (lines 72-85)
GenHandlesStart ==
  /\ pc = "gen_done"
  /\ pc' = "gen_handles"
  /\ gh_index' = 1
  /\ gcb_index' = 1
  /\ UNCHANGED r_bind_signal_lines
  /\ UNCHANGED <<gs_index, gen_struct_type, gen_index, count_fields, variant_union_type_fileds,
                 count_reports, struct_lines, r_structs_cpp>>
  /\ UNCHANGED parse_vars
  /\ UNCHANGED scan_vars

\* one pass of `for callback in callback_infos` (lines 353-356): the skip test
\* looks at method, the last method of the loop of line 327, and the call of
\* _gen_callback; UnboundLocalError when the handle has no method (method is
\* never assigned) or when line 415 never assigned infos
GenCallback ==
  /\ pc = "gen_handles"
  /\ gh_index <= Len(handles)
  /\ gcb_index <= Len(handles[gh_index].v.callbacks)
  /\ \E method_infos \in {handles[gh_index].v.methods} :
     \E callback \in {handles[gh_index].v.callbacks[gcb_index].k} :
     \E infos \in {IF AssignedCallbacks = <<>> THEN EmptyHandle
                   ELSE AssignedCallbacks[Len(AssignedCallbacks)].v} :
       IF method_infos = <<>>
            \/ (~_is_need_skip_callback(method_infos[Len(method_infos)].k)
                  /\ AssignedCallbacks = <<>>)
       THEN /\ pc' = "gen_callback_UnboundLocalError"
            /\ UNCHANGED <<gcb_index, r_bind_signal_lines, count_reports>>
       ELSE IF _is_need_skip_callback(method_infos[Len(method_infos)].k)
       THEN /\ gcb_index' = gcb_index + 1
            /\ UNCHANGED <<pc, r_bind_signal_lines, count_reports>>
       ELSE /\ count_reports' =
                 IF ReadsCallbackStruct(infos)
                 THEN count_reports \o CallbackCountReports(Get(structs, CallbackStruct(infos)))
                 ELSE count_reports
            /\ IF CallbackOutcome(infos) = "ok"
               THEN /\ r_bind_signal_lines' =
                         Append(r_bind_signal_lines,
                                RenderedCallback(callback, LoopedCallbackType(callback), infos))
                    /\ gcb_index' = gcb_index + 1
                    /\ UNCHANGED pc
               ELSE /\ pc' = "gen_callback_" \o CallbackOutcome(infos)
                    /\ UNCHANGED <<gcb_index, r_bind_signal_lines>>
  /\ UNCHANGED gh_index
  /\ UNCHANGED <<gs_index, gen_struct_type, gen_index, count_fields, variant_union_type_fileds,
                 struct_lines, r_structs_cpp>>
  /\ UNCHANGED parse_vars
  /\ UNCHANGED scan_vars

\* the callbacks of the handle are done: _gen_handle returns and gen_handles
\* takes the next handle (lines 274-277, 357-358)
GenHandleStep ==
  /\ pc = "gen_handles"
  /\ gh_index <= Len(handles)
  /\ gcb_index > Len(handles[gh_index].v.callbacks)
  /\ gh_index' = gh_index + 1
  /\ gcb_index' = 1
  /\ UNCHANGED <<pc, r_bind_signal_lines>>
  /\ UNCHANGED <<gs_index, gen_struct_type, gen_index, count_fields, variant_union_type_fileds,
                 count_reports, struct_lines, r_structs_cpp>>
  /\ UNCHANGED parse_vars
  /\ UNCHANGED scan_vars

\* lines 279-281
GenHandlesEnd ==
  /\ pc = "gen_handles"
  /\ gh_index > Len(handles)
  /\ pc' = "gen_handles_done"
  /\ UNCHANGED handle_vars
  /\ UNCHANGED <<gs_index, gen_struct_type, gen_index, count_fields, variant_union_type_fileds,
                 count_reports, struct_lines, r_structs_cpp>>
  /\ UNCHANGED parse_vars
  /\ UNCHANGED scan_vars

\* ------------------------------------------ claims about the callbacks

\* The scanned declarations: the handle, the structs S and EOS_Info, and for
\* each the methods and the callback of its roles.
CallbackDecls(n, rolesS, rolesInfo) ==
  <<Handle(<<"a", "u", "t", "h">>, <<"E", "O", "S", "_", "H", "A", "u", "t", "h">>),
    Struct(<<"a", "u", "t", "h">>, <<"S">>,
           <<Field(<<"A", "p", "i", "V", "e", "r", "s", "i", "o", "n">>, <<"i", "n", "t", "3", "2", "_", "t">>), Field(<<"N", "a", "m", "e">>, <<"c", "o", "n", "s", "t", " ", "c", "h", "a", "r", "*">>)>> \o ExtraFields(n)),
    Struct(<<"a", "u", "t", "h">>, <<"E", "O", "S", "_", "I", "n", "f", "o">>, <<Field(<<"A", "p", "i", "V", "e", "r", "s", "i", "o", "n">>, <<"i", "n", "t", "3", "2", "_", "t">>)>>)>>
  \o Uses(<<"S">>, rolesS, <<"M">>)
  \o Uses(<<"E", "O", "S", "_", "I", "n", "f", "o">>, rolesInfo, <<"N">>)

InitCallbacks ==
  \E order \in FileOrders, n \in 0..MaxExtraFields,
     rolesS \in {{"cb"}, {"cb", "in"}, {"cb", "out"}, {"out"}},
     rolesInfo \in {{}, {"cb"}, {"cb", "out"}} :
    StartWith(ScanResult(order, CallbackDecls(n, rolesS, rolesInfo)),
              <<<<"S", "_", "A", "P", "I", "_", "L", "A", "T", "E", "S", "T">>, <<"E", "O", "S", "_", "I", "N", "F", "O", "_", "A", "P", "I", "_", "L", "A", "T", "E", "S", "T">>>>)

NextCallbacks ==
  \/ NextGen
  \/ GenHandlesStart
  \/ GenCallback
  \/ GenHandleStep
  \/ GenHandlesEnd

\* parse_all_file on the scanned declarations, gen_structs, then the calls of
\* _gen_callback that gen_handles makes.
SpecCallbacks == InitCallbacks /\ [][NextCallbacks]_vars

\* the declaration of the callback in the handle tables
DeclaredCallback(name) == Get(HandleCallbacks, name)

\* C29: what _gen_callback(T, ...) renders is the callback registered under
\* T: the signal is named after T and the argument type and the return type
\* are those of T's declaration.
C29_RendersRequestedCallback ==
  \A i \in 1..Len(r_bind_signal_lines) :
    /\ r_bind_signal_lines[i].signal_name = to_snake_case(r_bind_signal_lines[i].requested)
    /\ r_bind_signal_lines[i].arg_type
         = DeclaredCallback(r_bind_signal_lines[i].requested).args[1].type
    /\ r_bind_signal_lines[i].return_type
         = DeclaredCallback(r_bind_signal_lines[i].requested).return

====
